---- MODULE Spec2Model ----
(***************************************************************************)
(* GP training-and-serving pipeline of agentic_memory/gp-service:          *)
(*   server.py              AgenticGP (prediction service, model registry)  *)
(*   gp_trainer.py          GPTrainer (basic offline trainer)               *)
(*   gp_trainer_enhanced.py EnhancedGPTrainer (offline trainer)             *)
(*                                                                         *)
(* Real numbers are exact rationals: a value is an integer numerator over  *)
(* a denominator stated next to the operator that computes it.             *)
(***************************************************************************)
EXTENDS Integers, Sequences, FiniteSets, TLC

VARIABLES
    conf,           \* the last calculate_confidence call: its arguments and the
                    \* value returned (confidence, numerator over ConfDen(pnl_std))
    trainer,        \* which trainer class runs: "basic" (GPTrainer) or "enhanced"
    files,          \* data_dir: key -> content of {key}_training.json
    queue,          \* training files the batch loop has still to process
    job,            \* the running train_instrument_direction call and its locals
    inst,           \* EnhancedGPTrainer attributes: feature_selector,
                    \* removed_features, scalers['features']
    outcome,        \* key -> value train_instrument_direction returned
    disk_models,    \* models_dir: key -> content of {key}_models.joblib
    disk_scalers,   \* models_dir: key -> content of {key}_scaler.joblib
    disk_metrics,   \* models_dir: key -> content of {key}_metrics.json
    models,         \* AgenticGP.models: key -> bundle dict
    scalers,        \* AgenticGP.scalers: key -> scaler
    current_count,  \* AgenticGP._current_model_sample_count
    clock,          \* number of train calls and restarts so far (datetime.now())
    last_op,        \* the service operation that ran last and what it returned
    phase,          \* the service process: "boot" (running __main__'s load loop)
                    \* or "serving"
    to_load,        \* the (instrument, direction) pairs the load loop has still to do
    pred,           \* the last predict call: request, intermediate vectors, result
    threads,        \* predict requests in flight in the threaded server: where
                    \* each one stands and what it has computed
    norm            \* a normalize_instrument_name call: input, result, and the
                    \* result of normalizing the result again

vars == <<conf, trainer, files, queue, job, inst, outcome,
          disk_models, disk_scalers, disk_metrics,
          models, scalers, current_count, clock, last_op, phase, to_load,
          pred, threads, norm>>

conf_vars == <<conf>>
trainer_vars == <<trainer, files, queue, job, inst, outcome>>
disk_vars == <<disk_models, disk_scalers, disk_metrics>>
registry_vars == <<models, scalers>>
service_vars == <<models, scalers, current_count, clock, last_op, phase, to_load,
                  pred, threads, norm>>

\* hasattr(self, '_current_model_sample_count') is False: no predict has run
Unset == -1

(***************************************************************************)
(* Bounds of the explored inputs                                           *)
(***************************************************************************)
MaxStd == 60
MaxMean == 12

Min(a, b) == IF a < b THEN a ELSE b
Max(a, b) == IF a > b THEN a ELSE b
Abs(a) == IF a < 0 THEN -a ELSE a

(***************************************************************************)
(* AgenticGP.calculate_confidence  (server.py 283-352)                     *)
(***************************************************************************)
\* pnl_std values: the three bands densely, and far-out uncertainties
StdValues == (0..MaxStd) \cup {100, 300, 1000}
\* pnl_mean values around the +/-10 regime boundaries, and far-out returns
MeanValues == ((-MaxMean)..MaxMean) \cup {-1000, -400, 400, 1000}
\* _current_model_sample_count, Unset when the attribute was never set
SampleCounts == {Unset, 0, 100, 101, 500, 501, 1000, 1001}
\* hash(str(pnl_mean) + str(pnl_std)) % 100: the string hash is salted per
\* process, so any residue 0..99 can come out
HashValues == {0, 50, 99}

\* divisor used for the ratio pnl_mean / pnl_std (1 when the ratio is not taken)
StdDiv(s) == IF s > 0 THEN s ELSE 1

\* numerator over 1500
uncertainty_confidence(s) ==
    IF s < 20 THEN 1350 - 15 * s                \* 0.9 - (s/20)*0.2
    ELSE IF s < 50 THEN 1050 - 20 * (s - 20)    \* 0.7 - ((s-20)/30)*0.4
    ELSE 450 - 6 * (s - 50)                     \* 0.3 - ((s-50)/50)*0.2

\* numerator over 20 * StdDiv(s); sharpe_like = m / s
return_confidence(m, s) ==
    IF s > 0 THEN
        IF m > 10 THEN
            IF 2 * m > s THEN 16 * s + Min(3 * s, 2 * m)   \* 0.8 + min(0.15, sharpe*0.1)
            ELSE IF m > 0 THEN 12 * s + 8 * m              \* 0.6 + sharpe*0.4
            ELSE 10 * s                                    \* 0.5
        ELSE IF Abs(m) <= 10 THEN 8 * s + 4 * m            \* 0.4 + sharpe*0.2
        ELSE IF 2 * m < -s THEN 4 * s - Min(2 * s, Abs(m)) \* 0.2 - min(0.1, |sharpe|*0.05)
        ELSE 6 * s + 2 * (2 * m + s)                       \* 0.3 + (sharpe+0.5)*0.2
    ELSE 10                                                \* 0.5

\* numerator over 10
model_confidence(n) ==
    IF n = Unset THEN 5
    ELSE IF n > 1000 THEN 8
    ELSE IF n > 500 THEN 7
    ELSE IF n > 100 THEN 6
    ELSE 4

\* denominator of the confidence and of everything below
ConfDen(s) == 60000 * StdDiv(s)

\* 0.35*uncertainty + 0.45*return + 0.20*model, numerator over ConfDen(s)
weighted_confidence(m, s, n) ==
    14 * uncertainty_confidence(s) * StdDiv(s)
    + 1350 * return_confidence(m, s)
    + 1200 * model_confidence(n) * StdDiv(s)

\* a jitter that is not centred: h / 5000
noise_not_centred(h, s) == 12 * h * StdDiv(s)

\* (h - 50) / 5000, numerator over ConfDen(s)
noise(h, s) == 12 * (h - 50) * StdDiv(s)

\* the return statement without its lower bound: min(0.95, c)
clamp_confidence_no_floor(c, s) == Min(57000 * StdDiv(s), c)

\* max(0.1, min(0.95, c)), numerators over ConfDen(s)
clamp_confidence(c, s) == Max(6000 * StdDiv(s), Min(57000 * StdDiv(s), c))

calculate_confidence(m, s, n, h) ==
    clamp_confidence(weighted_confidence(m, s, n) + noise(h, s), s)

ConfArgs(m, s, n, h) ==
    [called |-> FALSE, pnl_mean |-> m, pnl_std |-> s, sample_count |-> n,
     hash |-> h, confidence |-> 0]

CalculateConfidence ==
    /\ ~conf.called
    /\ conf' = [conf EXCEPT
                    !.called = TRUE,
                    !.confidence = calculate_confidence(conf.pnl_mean, conf.pnl_std,
                                                        conf.sample_count, conf.hash)]
    /\ UNCHANGED <<trainer_vars, disk_vars, service_vars>>


(***************************************************************************)
(* AgenticGP.normalize_instrument_name  (server.py 41-50).  A string is a  *)
(* sequence of one-character strings.                                      *)
(***************************************************************************)
MaxParts == 7

Months == {<<"J","A","N">>, <<"F","E","B">>, <<"M","A","R">>, <<"A","P","R">>,
           <<"M","A","Y">>, <<"J","U","N">>, <<"J","U","L">>, <<"A","U","G">>,
           <<"S","E","P">>, <<"O","C","T">>, <<"N","O","V">>, <<"D","E","C">>}
Digits == {"0", "1", "2", "3", "4", "5", "6", "7", "8", "9"}
Whitespace == {" "}

IsSpace(c) == c \in Whitespace
IsDigit(c) == c \in Digits

\* length of the whitespace run of s that starts at i (the greedy \s+)
RECURSIVE SpaceRun(_, _)
SpaceRun(s, i) ==
    IF i <= Len(s) /\ IsSpace(s[i]) THEN 1 + SpaceRun(s, i + 1) ELSE 0

\* length of the match of \s+(JAN|...|DEC)\d{2} at i, 0 if there is none
MonthMatch(s, i) ==
    LET r == SpaceRun(s, i)
        m == i + r
    IN IF /\ r > 0
          /\ m + 4 <= Len(s)
          /\ SubSeq(s, m, m + 2) \in Months
          /\ IsDigit(s[m + 3]) /\ IsDigit(s[m + 4])
       THEN r + 5 ELSE 0

\* length of the match of \s+\d{4} at i, 0 if there is none
YearMatch(s, i) ==
    LET r == SpaceRun(s, i)
        m == i + r
    IN IF /\ r > 0
          /\ m + 3 <= Len(s)
          /\ \A d \in 0..3 : IsDigit(s[m + d])
       THEN r + 4 ELSE 0

\* re.sub(pattern, '', s): the leftmost matches, left to right, in one pass
RECURSIVE SubMonth(_, _)
SubMonth(s, i) ==
    IF i > Len(s) THEN <<>>
    ELSE IF MonthMatch(s, i) > 0 THEN SubMonth(s, i + MonthMatch(s, i))
    ELSE <<s[i]>> \o SubMonth(s, i + 1)

RECURSIVE SubYear(_, _)
SubYear(s, i) ==
    IF i > Len(s) THEN <<>>
    ELSE IF YearMatch(s, i) > 0 THEN SubYear(s, i + YearMatch(s, i))
    ELSE <<s[i]>> \o SubYear(s, i + 1)

\* str.strip()
RECURSIVE LStrip(_)
LStrip(s) == IF s # <<>> /\ IsSpace(Head(s)) THEN LStrip(Tail(s)) ELSE s
RECURSIVE RStrip(_)
RStrip(s) ==
    IF s # <<>> /\ IsSpace(s[Len(s)]) THEN RStrip(SubSeq(s, 1, Len(s) - 1)) ELSE s
Strip(s) == RStrip(LStrip(s))

normalize_instrument_name(instrument) ==
    Strip(SubYear(SubMonth(instrument, 1), 1))

get_model_key(instrument, direction) ==
    <<normalize_instrument_name(instrument), direction>>

\* instrument strings: up to MaxParts pieces, each a symbol, a blank, a month
\* name or two digits
MGC == <<"M", "G", "C">>
Parts == {MGC, <<" ">>, <<"A", "U", "G">>, <<"2", "5">>}

RECURSIVE Concat(_)
Concat(ps) == IF ps = <<>> THEN <<>> ELSE Head(ps) \o Concat(Tail(ps))

Instruments ==
    {Concat(ps) : ps \in UNION {[1..n -> Parts] : n \in 0..MaxParts}}

NoNorm == [called |-> FALSE, instrument |-> <<>>]

NormalizeInstrumentName ==
    /\ ~norm.called
    /\ norm' = [called |-> TRUE,
                instrument |-> norm.instrument,
                once |-> normalize_instrument_name(norm.instrument),
                twice |-> normalize_instrument_name(normalize_instrument_name(norm.instrument))]
    /\ UNCHANGED <<conf_vars, trainer_vars, disk_vars, models, scalers, current_count,
                   clock, last_op, phase, to_load, pred, threads>>

(***************************************************************************)
(* AgenticGP.__init__  (server.py 29-34)                                   *)
(***************************************************************************)
NoOp == [op |-> "none"]
NoPred == [called |-> FALSE]

NoService ==
    /\ models = <<>>
    /\ scalers = <<>>
    /\ current_count = Unset
    /\ clock = 0
    /\ last_op = NoOp
    /\ phase = "boot"
    /\ to_load = <<>>
    /\ pred = NoPred
    /\ threads = <<>>
    /\ norm = NoNorm

(***************************************************************************)
(* Training data files  (gp_trainer.py 54-80, gp_trainer_enhanced.py       *)
(* 115-144).  A file holds n samples of Len(cols) features.  A column is   *)
(* "const" (the same value in every row, variance 0) or "vary".  The PnL   *)
(* targets are k samples at a + delta/1000 and n - k samples at a, or hold *)
(* a NaN/Inf.  Columns are numbered from 1 (numpy column i - 1).           *)
(***************************************************************************)
\* a key "{instrument}_{direction}" is the pair <<instrument, direction>>
Directions == {"long", "short"}
Keys == {<<MGC, d>> : d \in Directions}

MIN_SAMPLES == 20
EXPECTED_FEATURES == 100

\* a narrow export next to the padded one
SmallWidth == 4

SampleSizes == {0, MIN_SAMPLES - 1, MIN_SAMPLES, 2 * MIN_SAMPLES - 1, 2 * MIN_SAMPLES}
TrainWidths == {SmallWidth, EXPECTED_FEATURES}
ColumnPatterns == {"all_vary", "some_const", "all_const"}

Columns(w, pattern) ==
    [i \in 1..w |->
        IF pattern = "all_const" \/ (pattern = "some_const" /\ i % 4 = 0)
        THEN "const" ELSE "vary"]

FinitePnl(n) ==
    {[bad |-> FALSE, k |-> k, delta |-> d] : k \in {0, 1, n \div 2}, d \in {0, 1, 1000}}
PnlTargets(n) == FinitePnl(n) \cup {[bad |-> TRUE, k |-> 0, delta |-> 0]}

TrainingFiles ==
    UNION {
        {[n |-> n, cols |-> Columns(w, pat), feat_bad |-> fb, pnl |-> y, names_given |-> ng] :
            pat \in ColumnPatterns, fb \in BOOLEAN, y \in PnlTargets(n), ng \in BOOLEAN}
        : n \in SampleSizes, w \in TrainWidths }

\* load_training_data: features.shape[1] needs a 2-D array; GPTrainer reads
\* data['data']['feature_names'] without a default
load_raises(t, f) == f.n = 0 \/ (t = "basic" /\ ~f.names_given)

\* str(i): the decimal digits of i as a string of code points
RECURSIVE DigitsOf(_)
DigitsOf(i) == IF i < 10 THEN <<48 + i>> ELSE DigitsOf(i \div 10) \o <<48 + (i % 10)>>

\* the name an export gives its i-th feature column
FeatureName(i) == DigitsOf(i)

feature_names_of(f) == [i \in 1..Len(f.cols) |-> FeatureName(i)]

\* [name for i, name in enumerate(names) if i not in removed_features]
names_not_removed(names, removed_features) ==
    LET idx == SelectSeq([i \in 1..Len(names) |-> i], LAMBDA i : i \notin removed_features)
    IN [k \in 1..Len(idx) |-> names[idx[k]]]

\* np.var(pnl_targets) < 1e-6, as k(n-k)delta^2 / n^2 < 1 in units of 1e-6;
\* a NaN variance compares False
pnl_var_below_threshold(f) ==
    /\ ~f.pnl.bad
    /\ f.pnl.k * (f.n - f.pnl.k) * f.pnl.delta * f.pnl.delta < f.n * f.n

\* GPTrainer.validate_data without its minimum-samples check
validate_data_basic_no_min(f) ==
    IF f.feat_bad THEN FALSE
    ELSE IF f.pnl.bad THEN FALSE
    ELSE TRUE

\* GPTrainer.validate_data: low PnL variance and zero-variance features only warn
validate_data_basic(f) ==
    IF f.n < MIN_SAMPLES THEN FALSE
    ELSE IF f.feat_bad THEN FALSE
    ELSE IF f.pnl.bad THEN FALSE
    ELSE TRUE

\* EnhancedGPTrainer.validate_data without its NaN/Inf checks
validate_data_enhanced_no_nan_check(f) ==
    IF f.n < MIN_SAMPLES THEN FALSE
    ELSE IF pnl_var_below_threshold(f) THEN FALSE
    ELSE TRUE

\* EnhancedGPTrainer.validate_data
validate_data_enhanced(f) ==
    IF f.n < MIN_SAMPLES THEN FALSE
    ELSE IF pnl_var_below_threshold(f) THEN FALSE
    ELSE IF f.feat_bad THEN FALSE
    ELSE IF f.pnl.bad THEN FALSE
    ELSE TRUE

validate_data(t, f) ==
    IF t = "basic" THEN validate_data_basic(f) ELSE validate_data_enhanced(f)

\* VarianceThreshold(threshold=1e-10).get_support()
support_mask(f) == [i \in 1..Len(f.cols) |-> f.cols[i] = "vary"]
retained(mask) == {i \in 1..Len(mask) : mask[i]}
removed(mask) == {i \in 1..Len(mask) : ~mask[i]}

(***************************************************************************)
(* train_instrument_direction  (gp_trainer.py 188-244,                     *)
(* gp_trainer_enhanced.py 426-501), one action per step of the job.         *)
(***************************************************************************)
IdleJob == [pc |-> "idle"]
NoFit == [fitted |-> FALSE]

\* a regressor fitted by job id
Fit(target, id, width) == [fitted |-> TRUE, target |-> target, job |-> id, width |-> width]
\* a scaler fitted by job id on width columns
Scaler(kind, id, width) == [fitted |-> TRUE, kind |-> kind, job |-> id, n_features_in |-> width]
\* a VarianceThreshold fitted by job id
Selector(id, mask) == [fitted |-> TRUE, job |-> id, mask |-> mask]

NewInstance == [feature_selector |-> NoFit, removed_features |-> {}, scaler |-> NoFit]

\* a file a failed joblib.dump / open(..., 'w') left truncated
Corrupt == [corrupt |-> TRUE]

\* jobs run one after the other; each gets the next number
NextJobId == Cardinality(DOMAIN outcome) + 1

\* return from train_instrument_direction (both the return statements and
\* the except clause, which returns False)
EndJob(result) ==
    /\ outcome' = (job.key :> result) @@ outcome
    /\ job' = IdleJob

\* a batch loop that gives up at the first job that returned False
loop_stops_at_failure(results) == \A key \in DOMAIN results : results[key]

\* for filename in training_files: both branches of the if on the job's
\* result only count, and the loop goes on to the next file
loop_continues(results) == TRUE

\* parts = basename.split('_'); if len(parts) >= 2
well_named(parts) == Len(parts) >= 2

\* the batch loop takes the next file; load_training_data
StartJob ==
    /\ job.pc = "idle"
    /\ queue # <<>>
    /\ loop_continues(outcome)
    /\ well_named(Head(queue))
    /\ queue' = Tail(queue)
    /\ LET key == Head(queue)
           f == files[key]
       IN IF load_raises(trainer, f)
          THEN /\ outcome' = (key :> FALSE) @@ outcome
               /\ job' = IdleJob
          ELSE /\ job' = [pc |-> "loaded", key |-> key, id |-> NextJobId,
                          data |-> f, feature_names |-> feature_names_of(f),
                          features_scaled |-> [rows |-> 0, width |-> 0],
                          scaler |-> NoFit, pnl_gp |-> NoFit,
                          trajectory_gp |-> NoFit, risk_gp |-> NoFit,
                          fit_rows |-> [pnl |-> 0, trajectory |-> 0, risk |-> 0]]
               /\ UNCHANGED outcome
    /\ UNCHANGED <<service_vars, conf_vars, trainer, files, inst, disk_vars>>

\* if not self.validate_data(data): return False
Validate ==
    /\ job.pc = "loaded"
    /\ IF validate_data(trainer, job.data)
       THEN /\ job' = [job EXCEPT !.pc = "validated"]
            /\ UNCHANGED outcome
       ELSE EndJob(FALSE)
    /\ UNCHANGED <<service_vars, conf_vars, trainer, files, queue, inst, disk_vars>>

\* EnhancedGPTrainer.preprocess_features(features, fit=True)
preprocess_features(id, f) ==
    LET mask == support_mask(f)
        kept == Cardinality(retained(mask))
    IN [raises |-> kept = 0,     \* VarianceThreshold.fit: no feature meets the threshold
        feature_selector |-> Selector(id, mask),
        \* self.removed_features is assigned only if removed_count > 0
        removed_features |-> IF removed(mask) # {} THEN removed(mask)
                             ELSE inst.removed_features,
        scaler |-> Scaler("Robust", id, kept),
        width |-> kept]

Preprocess ==
    /\ job.pc = "validated"
    /\ IF trainer = "enhanced"
       THEN LET r == preprocess_features(job.id, job.data)
            IN IF r.raises
               THEN \* the new, unfitted selector is already assigned to self
                    /\ inst' = [inst EXCEPT !.feature_selector = NoFit]
                    /\ EndJob(FALSE)
               ELSE /\ inst' = [feature_selector |-> r.feature_selector,
                                removed_features |-> r.removed_features,
                                scaler |-> r.scaler]
                    /\ job' = [job EXCEPT !.pc = "preprocessed",
                                          !.scaler = r.scaler,
                                          !.features_scaled = [rows |-> job.data.n, width |-> r.width]]
                    /\ UNCHANGED outcome
       ELSE \* scaler = StandardScaler(); features_scaled = scaler.fit_transform(features)
            /\ job' = [job EXCEPT !.pc = "preprocessed",
                                  !.scaler = Scaler("Standard", job.id, Len(job.data.cols)),
                                  !.features_scaled = [rows |-> job.data.n, width |-> Len(job.data.cols)]]
            /\ UNCHANGED <<inst, outcome>>
    /\ UNCHANGED <<service_vars, conf_vars, trainer, files, queue, disk_vars>>

\* cross_val_score(..., cv=min(5, len(features)//20)): fewer than 2 folds raises
cv_folds(rows) == Min(5, rows \div MIN_SAMPLES)

\* EnhancedGPTrainer.train_pnl_gp returns None: zero variance, or an exception
\* in fit / predict / cross_val_score
pnl_gp_is_none(f, rows, fit_raises) ==
    \/ pnl_var_below_threshold(f)
    \/ fit_raises
    \/ cv_folds(rows) < 2

\* the rows pnl_gp.fit sees: the enhanced trainer fits X_train of
\* train_test_split(features, pnl_targets, test_size=0.2), which holds out
\* ceil(0.2 * rows) rows; GPTrainer fits all rows
pnl_fit_rows(t, rows) ==
    IF t = "enhanced" THEN rows - ((rows + 4) \div 5) ELSE rows

\* the rows trajectory_gp.fit sees: the enhanced trainer draws
\* min(500, len(features)) rows without replacement; GPTrainer fits all rows
trajectory_fit_rows(t, rows) ==
    IF t = "enhanced" THEN Min(500, rows) ELSE rows

\* risk_gp.fit(features, risk_targets)
risk_fit_rows(t, rows) == rows

FitPnl ==
    /\ job.pc = "preprocessed"
    /\ \E fit_raises \in BOOLEAN :
        LET failed == IF trainer = "enhanced"
                      THEN pnl_gp_is_none(job.data, job.features_scaled.rows, fit_raises)
                      ELSE fit_raises
        IN IF failed
           THEN EndJob(FALSE)
           ELSE /\ job' = [job EXCEPT !.pc = "pnl_fit",
                                      !.pnl_gp = Fit("pnl", job.id, job.features_scaled.width),
                                      !.fit_rows.pnl =
                                          pnl_fit_rows(trainer, job.features_scaled.rows)]
                /\ UNCHANGED outcome
    /\ UNCHANGED <<service_vars, conf_vars, trainer, files, queue, inst, disk_vars>>

FitTrajectory ==
    /\ job.pc = "pnl_fit"
    /\ \E fit_raises \in BOOLEAN :
        IF fit_raises
        THEN EndJob(FALSE)
        ELSE /\ job' = [job EXCEPT !.pc = "trajectory_fit",
                                   !.trajectory_gp = Fit("trajectory", job.id, job.features_scaled.width),
                                   !.fit_rows.trajectory =
                                       trajectory_fit_rows(trainer, job.features_scaled.rows)]
             /\ UNCHANGED outcome
    /\ UNCHANGED <<service_vars, conf_vars, trainer, files, queue, inst, disk_vars>>

FitRisk ==
    /\ job.pc = "trajectory_fit"
    /\ \E fit_raises \in BOOLEAN :
        IF fit_raises
        THEN EndJob(FALSE)
        ELSE /\ job' = [job EXCEPT !.pc = "risk_fit",
                                   !.risk_gp = Fit("risk", job.id, job.features_scaled.width),
                                   !.fit_rows.risk =
                                       risk_fit_rows(trainer, job.features_scaled.rows)]
             /\ UNCHANGED outcome
    /\ UNCHANGED <<service_vars, conf_vars, trainer, files, queue, inst, disk_vars>>


\* model_data that takes the risk model from the trainer's previous job
enhanced_bundle_stale_risk(j, self) ==
    [pnl_gp |-> j.pnl_gp,
     trajectory_gp |-> j.trajectory_gp,
     risk_gp |-> Fit("risk", j.id - 1, j.features_scaled.width),
     feature_selector |-> self.feature_selector,
     scaler |-> self.scaler,
     removed_features |-> self.removed_features,
     feature_names |-> names_not_removed(j.feature_names, self.removed_features),
     training_info |-> [n_samples |-> j.data.n,
                        n_features_original |-> Len(j.data.cols),
                        n_features_used |-> j.features_scaled.width,
                        key |-> j.key,
                        trained_at |-> j.id]]

\* model_data of EnhancedGPTrainer.train_instrument_direction (lines 461-483)
enhanced_bundle(j, self) ==
    [pnl_gp |-> j.pnl_gp,
     trajectory_gp |-> j.trajectory_gp,
     risk_gp |-> j.risk_gp,
     feature_selector |-> self.feature_selector,
     scaler |-> self.scaler,
     removed_features |-> self.removed_features,
     feature_names |-> names_not_removed(j.feature_names, self.removed_features),
     training_info |-> [n_samples |-> j.data.n,
                        n_features_original |-> Len(j.data.cols),
                        n_features_used |-> j.features_scaled.width,
                        key |-> j.key,
                        trained_at |-> j.id]]

\* models of GPTrainer.train_instrument_direction (lines 207-234)
basic_bundle(j) ==
    [pnl_gp |-> j.pnl_gp,
     trajectory_gp |-> j.trajectory_gp,
     risk_gp |-> j.risk_gp,
     scaler |-> j.scaler,
     feature_names |-> j.feature_names,
     trained |-> TRUE,
     last_updated |-> j.id,
     sample_count |-> j.data.n,
     key |-> j.key]

bundle_of(t, j, self) == IF t = "basic" THEN basic_bundle(j) ELSE enhanced_bundle(j, self)

\* a write to path key of directory dir: done, or failed leaving the file as
\* it was or truncated
write_file(dir, key, content, how) ==
    IF how = "ok" THEN (key :> content) @@ dir
    ELSE IF how = "truncated" THEN (key :> Corrupt) @@ dir
    ELSE dir

WriteOutcomes == {"ok", "truncated", "untouched"}

\* joblib.dump(model_data, model_path)
SaveBundle ==
    /\ job.pc = "risk_fit"
    /\ \E how \in WriteOutcomes :
        /\ disk_models' = write_file(disk_models, job.key, bundle_of(trainer, job, inst), how)
        /\ IF how = "ok"
           THEN /\ job' = [job EXCEPT !.pc = "bundle_written"]
                /\ UNCHANGED outcome
           ELSE EndJob(FALSE)
    /\ UNCHANGED <<service_vars, conf_vars, trainer, files, queue, inst, disk_scalers, disk_metrics>>

\* the job's second artifact: the enhanced trainer dumps the standalone
\* scaler, GPTrainer.save_models writes {key}_metrics.json; then return True
SaveSecond ==
    /\ job.pc = "bundle_written"
    /\ \E how \in WriteOutcomes :
        /\ IF trainer = "enhanced"
           THEN /\ disk_scalers' = write_file(disk_scalers, job.key, inst.scaler, how)
                /\ UNCHANGED disk_metrics
           ELSE /\ disk_metrics' = write_file(disk_metrics, job.key, [job |-> job.id], how)
                /\ UNCHANGED disk_scalers
        /\ EndJob(how = "ok")
    /\ UNCHANGED <<service_vars, conf_vars, trainer, files, queue, inst, disk_models>>

\* models_dir before the run: empty, or holding the artifacts an earlier
\* enhanced run (job number 0) left for every key
OldFile ==
    [n |-> 2 * MIN_SAMPLES, cols |-> Columns(SmallWidth, "some_const"), feat_bad |-> FALSE,
     pnl |-> [bad |-> FALSE, k |-> 1, delta |-> 1000], names_given |-> TRUE]
\* what an enhanced run (job number 0) over file f leaves on disk
TrainedScaler(f) == Scaler("Robust", 0, Cardinality(retained(support_mask(f))))
TrainedBundle(key, f) ==
    LET mask == support_mask(f)
        kept == Cardinality(retained(mask))
    IN enhanced_bundle(
        [key |-> key, id |-> 0, data |-> f, feature_names |-> feature_names_of(f),
         features_scaled |-> [rows |-> f.n, width |-> kept],
         pnl_gp |-> Fit("pnl", 0, kept), trajectory_gp |-> Fit("trajectory", 0, kept),
         risk_gp |-> Fit("risk", 0, kept)],
        [feature_selector |-> Selector(0, mask), removed_features |-> removed(mask),
         scaler |-> TrainedScaler(f)])
OldScaler == TrainedScaler(OldFile)
OldBundle(key) == TrainedBundle(key, OldFile)

InitTrain ==
    /\ conf = ConfArgs(0, 0, Unset, 0)
    /\ trainer \in {"basic", "enhanced"}
    /\ \E key \in Keys, f \in TrainingFiles :
        /\ files = (key :> f)
        /\ queue = <<key>>
    /\ job = IdleJob
    /\ inst = NewInstance
    /\ outcome = <<>>
    /\ \/ /\ disk_models = <<>>
          /\ disk_scalers = <<>>
       \/ /\ disk_models = [k \in Keys |-> OldBundle(k)]
          /\ disk_scalers = [k \in Keys |-> OldScaler]
    /\ disk_metrics = <<>>
    /\ NoService

NextTrain ==
    \/ StartJob
    \/ Validate
    \/ Preprocess
    \/ FitPnl
    \/ FitTrajectory
    \/ FitRisk
    \/ SaveBundle
    \/ SaveSecond

SpecTrain == InitTrain /\ [][NextTrain]_vars


(***************************************************************************)
(* A batch over the files of both keys  (gp_trainer_enhanced.py 503-571,   *)
(* gp_trainer.py 276-340)                                                  *)
(***************************************************************************)
TrainingFile(n, pattern, feat_bad, names_given) ==
    [n |-> n, cols |-> Columns(SmallWidth, pattern), feat_bad |-> feat_bad,
     pnl |-> [bad |-> FALSE, k |-> 1, delta |-> 1000], names_given |-> names_given]

\* an empty export, one below the minimum, one with NaN features, one whose
\* columns are all constant, one without feature_names, a sound one with a
\* constant column and a sound one whose columns all vary
BatchFiles ==
    {TrainingFile(0, "some_const", FALSE, TRUE),
     TrainingFile(MIN_SAMPLES - 1, "some_const", FALSE, TRUE),
     TrainingFile(2 * MIN_SAMPLES, "some_const", TRUE, TRUE),
     TrainingFile(2 * MIN_SAMPLES, "all_const", FALSE, TRUE),
     TrainingFile(2 * MIN_SAMPLES, "some_const", FALSE, FALSE),
     TrainingFile(2 * MIN_SAMPLES, "some_const", FALSE, TRUE),
     TrainingFile(2 * MIN_SAMPLES, "all_vary", FALSE, TRUE)}

\* training_summary.json is kept with the metrics files
SummaryKey == <<<<"training">>, "summary">>

\* a file name with fewer than two parts: GPTrainer counts a failure (the
\* else branch, lines 309-311), EnhancedGPTrainer.train_all has no else
\* branch and counts nothing
SkipFile ==
    /\ job.pc = "idle"
    /\ queue # <<>>
    /\ loop_continues(outcome)
    /\ ~well_named(Head(queue))
    /\ queue' = Tail(queue)
    /\ outcome' = IF trainer = "basic" THEN (Head(queue) :> FALSE) @@ outcome ELSE outcome
    /\ UNCHANGED <<service_vars, conf_vars, trainer, files, job, inst, disk_vars>>

\* summary_data of EnhancedGPTrainer.train_all: its two counters and the
\* summary dict, which gets one entry per job run
enhanced_summary(results) ==
    [successes |-> Cardinality({k \in DOMAIN results : results[k]}),
     failures |-> Cardinality({k \in DOMAIN results : ~results[k]}),
     models |-> results]

\* GPTrainer: the counters are logged (line 313), and the summary collects
\* the content of every *_metrics.json that models_dir holds
basic_summary(results, metrics) ==
    [successes |-> Cardinality({k \in DOMAIN results : results[k]}),
     failures |-> Cardinality({k \in DOMAIN results : ~results[k]}),
     models |-> [k \in DOMAIN metrics |-> metrics[k]]]

\* after the loop: EnhancedGPTrainer.train_all writes its counts;
\* GPTrainer.generate_training_summary reads every *_metrics.json first and
\* raises on one it cannot parse
FinishBatch ==
    /\ job.pc = "idle"
    /\ queue = <<>>
    /\ SummaryKey \notin DOMAIN disk_metrics
    /\ IF trainer = "basic" /\ \E key \in DOMAIN disk_metrics : disk_metrics[key] = Corrupt
       THEN UNCHANGED disk_metrics
       ELSE disk_metrics' =
              (SummaryKey :> IF trainer = "basic" THEN basic_summary(outcome, disk_metrics)
                             ELSE enhanced_summary(outcome))
              @@ disk_metrics
    /\ UNCHANGED <<service_vars, conf_vars, trainer_vars, disk_models, disk_scalers>>

\* a training file whose name has no direction part
IllNamed == <<MGC>>

\* the listings of data_dir: the files of the two keys, with or without an
\* ill-named file, in any order
Listings ==
    LET long == <<MGC, "long">>
        short == <<MGC, "short">>
    IN {<<long, short>>, <<short, long>>,
        <<IllNamed, long, short>>, <<long, IllNamed, short>>, <<long, short, IllNamed>>,
        <<IllNamed, short, long>>, <<short, IllNamed, long>>, <<short, long, IllNamed>>}

InitBatch ==
    /\ conf = ConfArgs(0, 0, Unset, 0)
    /\ trainer \in {"basic", "enhanced"}
    /\ queue \in Listings
    /\ \E content \in [Keys -> BatchFiles] :
        files = IF Len(queue) = 3
                THEN (IllNamed :> TrainingFile(2 * MIN_SAMPLES, "all_vary", FALSE, TRUE))
                     @@ content
                ELSE content
    /\ job = IdleJob
    /\ inst = NewInstance
    /\ outcome = <<>>
    /\ \/ /\ disk_models = <<>>
          /\ disk_scalers = <<>>
       \/ /\ disk_models = [k \in Keys |-> OldBundle(k)]
          /\ disk_scalers = [k \in Keys |-> OldScaler]
    /\ disk_metrics = <<>>
    /\ NoService

NextBatch ==
    \/ NextTrain
    \/ SkipFile
    \/ FinishBatch

SpecBatch == InitBatch /\ [][NextBatch]_vars


\* the arguments of the call are fixed before it runs
InitConf ==
    /\ \E m \in MeanValues, s \in StdValues, n \in SampleCounts, h \in HashValues :
        conf = ConfArgs(m, s, n, h)
    /\ trainer = "enhanced"
    /\ files = <<>>
    /\ queue = <<>>
    /\ job = IdleJob
    /\ inst = NewInstance
    /\ outcome = <<>>
    /\ disk_models = <<>>
    /\ disk_scalers = <<>>
    /\ disk_metrics = <<>>
    /\ NoService

NextConf == CalculateConfidence

SpecConf == InitConf /\ [][NextConf]_vars

(***************************************************************************)
(* C1: for every finite pnl_mean, every finite pnl_std >= 0 (pnl_std = 0   *)
(* included) and every training sample count, calculate_confidence returns *)
(* a value c with 0.1 <= c <= 0.95.                                        *)
(***************************************************************************)
ConfidenceClamped ==
    conf.called =>
        /\ 10 * conf.confidence >= ConfDen(conf.pnl_std)          \* c >= 0.1
        /\ 20 * conf.confidence <= 19 * ConfDen(conf.pnl_std)     \* c <= 0.95

\* a call with pnl_std = 1000 whose weighted sum plus jitter lies below 0.1
\* and comes back as exactly 0.1
ConfidenceClampedWitness ==
    /\ conf.called
    /\ conf.pnl_std = 1000
    /\ 10 * (weighted_confidence(conf.pnl_mean, conf.pnl_std, conf.sample_count)
              + noise(conf.hash, conf.pnl_std)) < ConfDen(conf.pnl_std)
    /\ 10 * conf.confidence = ConfDen(conf.pnl_std)

(***************************************************************************)
(* The prediction service: the registry and its persistence                *)
(* (server.py 52-150, 367-426, 575-584)                                    *)
(***************************************************************************)
MaxOps == 2

\* the two spellings of the instrument a request can carry
MGC_AUG25 == MGC \o <<" ">> \o <<"A", "U", "G">> \o <<"2", "5">>
ServiceInstruments == {MGC, MGC_AUG25}

\* the feature matrix posted to /api/train: its number of rows and columns
ServiceSampleSizes == {150}
ServiceWidths == {EXPECTED_FEATURES}

\* a train request carries trajectory and risk targets, or neither
AuxTargets == {TRUE, FALSE}

NoneValue == [none |-> TRUE]

\* fitted objects of the service are numbered apart from the trainers' jobs
ServiceRun(c) == 1000 + c

\* the dict initialize_model stores for a new key: unfitted estimators
NewModel ==
    [pnl_gp |-> NoFit, trajectory_gp |-> NoFit, risk_gp |-> NoFit,
     trained |-> FALSE, last_updated |-> 0, sample_count |-> 0]

\* dict.get(name, default)
Get(d, name, default) == IF name \in DOMAIN d THEN d[name] ELSE default

\* loaded_data.get('training_info', {}).get('n_samples', 0)
loaded_sample_count(loaded_data) ==
    Get(Get(loaded_data, "training_info", <<>>), "n_samples", 0)

Optional(d, name) == IF name \in DOMAIN d THEN (name :> d[name]) ELSE <<>>

\* the registry entry load_model builds from the unpickled file
restructure(loaded_data, now) ==
    IF "pnl_gp" \in DOMAIN loaded_data
    THEN Optional(loaded_data, "feature_selector")
         @@ Optional(loaded_data, "removed_features")
         @@ Optional(loaded_data, "feature_names")
         @@ [pnl_gp |-> loaded_data.pnl_gp,
             trajectory_gp |-> Get(loaded_data, "trajectory_gp", NoneValue),
             risk_gp |-> Get(loaded_data, "risk_gp", NoneValue),
             trained |-> TRUE,
             last_updated |-> now,
             sample_count |-> loaded_sample_count(loaded_data)]
    ELSE loaded_data

\* AgenticGP.load_model, as the start-up loop calls it; an exception of
\* joblib.load is not caught there and ends the process
LoadModel ==
    /\ phase = "boot"
    /\ to_load # <<>>
    /\ to_load' = Tail(to_load)
    /\ LET key == get_model_key(Head(to_load)[1], Head(to_load)[2])
           done == IF Tail(to_load) = <<>> THEN "serving" ELSE "boot"
       IN IF key \in DOMAIN disk_models /\ key \in DOMAIN disk_scalers
          THEN IF disk_models[key] = Corrupt
               THEN \* joblib.load(model_path) raises
                    /\ last_op' = [op |-> "load", key |-> key, result |-> "raise"]
                    /\ phase' = "crashed"
                    /\ UNCHANGED <<models, scalers>>
               ELSE /\ models' = (key :> restructure(disk_models[key], clock + 1)) @@ models
                    /\ IF disk_scalers[key] = Corrupt
                       THEN \* joblib.load(scaler_path) raises, the entry is already stored
                            /\ last_op' = [op |-> "load", key |-> key, result |-> "raise"]
                            /\ phase' = "crashed"
                            /\ UNCHANGED scalers
                       ELSE /\ scalers' = (key :> disk_scalers[key]) @@ scalers
                            /\ last_op' = [op |-> "load", key |-> key, result |-> "True"]
                            /\ phase' = done
          ELSE /\ last_op' = [op |-> "load", key |-> key, result |-> "False"]
               /\ phase' = done
               /\ UNCHANGED <<models, scalers>>
    /\ UNCHANGED <<conf_vars, trainer_vars, disk_vars, current_count, clock, pred, threads,
                   norm>>

\* how far a train_model call gets: the first step that fails, or "ok"
TrainScenarios ==
    {"scaler_raises", "pnl_raises", "pnl_raises_half_fitted", "trajectory_raises",
     "risk_raises", "bundle_write_untouched", "bundle_write_truncated",
     "scaler_write_untouched", "scaler_write_truncated", "ok"}

\* a GP whose fit raised after it had replaced part of its fitted state
HalfFitted(target, id) == [fitted |-> FALSE, target |-> target, job |-> id, half |-> TRUE]

\* the steps of train_model in order; scenario names the first one that fails
train_model(key, n, w, traj_given, risk_given, scenario, now) ==
    LET id == ServiceRun(now)
        \* initialize_model
        known == key \in DOMAIN models
        m0 == IF known THEN models[key] ELSE NewModel
        sc0 == IF known THEN scalers ELSE (key :> NoFit) @@ scalers
        \* self.scalers[key].fit_transform(features), outside the try block
        no_scaler == key \notin DOMAIN sc0
        scaler_fails == no_scaler \/ scenario = "scaler_raises"
        sc1 == IF no_scaler THEN sc0
               ELSE IF scaler_fails THEN (key :> NoFit) @@ sc0
               ELSE (key :> Scaler("Standard", id, w)) @@ sc0
        \* model['pnl_gp'].fit
        pnl_fails == scenario \in {"pnl_raises", "pnl_raises_half_fitted"}
        m1 == IF scenario = "pnl_raises" THEN m0
              ELSE IF scenario = "pnl_raises_half_fitted"
                   THEN [m0 EXCEPT !.pnl_gp = HalfFitted("pnl", id)]
              ELSE [m0 EXCEPT !.pnl_gp = Fit("pnl", id, w)]
        \* model['trajectory_gp'].fit, if trajectory data was posted
        traj_fails == traj_given /\ (scenario = "trajectory_raises" \/ m0.trajectory_gp = NoneValue)
        m2 == IF traj_given /\ ~traj_fails
              THEN [m1 EXCEPT !.trajectory_gp = Fit("trajectory", id, w)] ELSE m1
        \* model['risk_gp'].fit, if risk data was posted
        risk_fails == risk_given /\ (scenario = "risk_raises" \/ m0.risk_gp = NoneValue)
        m3 == IF risk_given /\ ~risk_fails
              THEN [m2 EXCEPT !.risk_gp = Fit("risk", id, w)] ELSE m2
        m4 == [m3 EXCEPT !.trained = TRUE, !.last_updated = now, !.sample_count = n]
        \* save_model
        how1 == IF scenario = "bundle_write_untouched" THEN "untouched"
                ELSE IF scenario = "bundle_write_truncated" THEN "truncated" ELSE "ok"
        how2 == IF scenario = "scaler_write_untouched" THEN "untouched"
                ELSE IF scenario = "scaler_write_truncated" THEN "truncated" ELSE "ok"
    IN IF scaler_fails
       THEN [result |-> "raise", models |-> (key :> m0) @@ models, scalers |-> sc1,
             disk_models |-> disk_models, disk_scalers |-> disk_scalers]
       ELSE IF pnl_fails
       THEN [result |-> "False", models |-> (key :> m1) @@ models, scalers |-> sc1,
             disk_models |-> disk_models, disk_scalers |-> disk_scalers]
       ELSE IF traj_fails
       THEN [result |-> "False", models |-> (key :> m1) @@ models, scalers |-> sc1,
             disk_models |-> disk_models, disk_scalers |-> disk_scalers]
       ELSE IF risk_fails
       THEN [result |-> "False", models |-> (key :> m2) @@ models, scalers |-> sc1,
             disk_models |-> disk_models, disk_scalers |-> disk_scalers]
       ELSE IF how1 # "ok"
       THEN [result |-> "False", models |-> (key :> m4) @@ models, scalers |-> sc1,
             disk_models |-> write_file(disk_models, key, m4, how1),
             disk_scalers |-> disk_scalers]
       ELSE [result |-> IF how2 = "ok" THEN "True" ELSE "False",
             models |-> (key :> m4) @@ models, scalers |-> sc1,
             disk_models |-> write_file(disk_models, key, m4, "ok"),
             disk_scalers |-> write_file(disk_scalers, key, sc1[key], how2)]

\* POST /api/train -> AgenticGP.train_model (which ends in save_model)
TrainModel ==
    /\ phase = "serving"
    /\ clock < MaxOps
    /\ clock' = clock + 1
    /\ \E instrument \in ServiceInstruments, direction \in Directions,
          n \in ServiceSampleSizes, w \in ServiceWidths,
          aux \in AuxTargets, scenario \in TrainScenarios :
        LET key == get_model_key(instrument, direction)
            r == train_model(key, n, w, aux, aux, scenario, clock + 1)
        IN /\ models' = r.models
           /\ scalers' = r.scalers
           /\ disk_models' = r.disk_models
           /\ disk_scalers' = r.disk_scalers
           /\ last_op' = [op |-> "train", key |-> key, result |-> r.result,
                          sample_count |-> n]
    /\ UNCHANGED <<conf_vars, trainer_vars, disk_metrics, current_count, phase, to_load,
                   pred, threads, norm>>

\* an update that counts the new data point into the bundle
update_online_counts_sample(key) ==
    IF key \notin DOMAIN models \/ ~models[key].trained
    THEN [result |-> "False", models |-> models, scalers |-> scalers]
    ELSE [result |-> "True",
          models |-> [models EXCEPT ![key].sample_count = models[key].sample_count + 1],
          scalers |-> scalers]

\* AgenticGP.update_online (lines 354-365): the data point is only logged
update_online(key) ==
    IF key \notin DOMAIN models \/ ~models[key].trained
    THEN [result |-> "False", models |-> models, scalers |-> scalers]
    ELSE [result |-> "True", models |-> models, scalers |-> scalers]

\* POST /api/update -> AgenticGP.update_online
UpdateOnline ==
    /\ phase = "serving"
    /\ \E instrument \in ServiceInstruments, direction \in Directions, complete \in BOOLEAN :
        LET key == get_model_key(instrument, direction)
            r == update_online(key)
        IN IF complete
           THEN /\ models' = r.models
                /\ scalers' = r.scalers
                /\ last_op' = [op |-> "update", key |-> key, result |-> r.result]
           ELSE \* a required field is missing: 400 before the engine is called
                /\ last_op' = [op |-> "update", key |-> key, result |-> "400"]
                /\ UNCHANGED <<models, scalers>>
    /\ UNCHANGED <<conf_vars, trainer_vars, disk_vars, current_count, clock, phase, to_load,
                   pred, threads, norm>>

\* status['summary'] before the loop of models_status
EmptySummary == [total_models |-> 0, trained_models |-> 0, total_samples |-> 0]

\* a loop body that counts every key as trained
count_model_every_key_trained(summary, model) ==
    [total_models |-> summary.total_models + 1,
     trained_models |-> summary.trained_models + 1,
     total_samples |-> summary.total_samples + Get(model, "sample_count", 0)]

\* one pass of the loop body over the summary (lines 536-539)
count_model(summary, model) ==
    LET is_trained == Get(model, "trained", FALSE)
        sample_count == Get(model, "sample_count", 0)
    IN [total_models |-> summary.total_models + 1,
        trained_models |-> summary.trained_models + (IF is_trained THEN 1 ELSE 0),
        total_samples |-> summary.total_samples + (IF is_trained THEN sample_count ELSE 0)]

\* for key, model in gp_engine.models.items(), over the keys still to visit
RECURSIVE summary_loop(_, _, _)
summary_loop(registry, keys, summary) ==
    IF keys = {} THEN summary
    ELSE LET key == CHOOSE k \in keys : TRUE
         IN summary_loop(registry, keys \ {key}, count_model(summary, registry[key]))

\* status['models'][key] (lines 527-534); last_updated 0 stands for None
model_status(model) ==
    [trained |-> Get(model, "trained", FALSE),
     sample_count |-> Get(model, "sample_count", 0),
     last_updated |-> Get(model, "last_updated", 0),
     has_pnl_gp |-> Get(model, "pnl_gp", NoneValue) # NoneValue,
     has_trajectory_gp |-> Get(model, "trajectory_gp", NoneValue) # NoneValue,
     has_risk_gp |-> Get(model, "risk_gp", NoneValue) # NoneValue]

\* the body of GET /api/models/status
models_status(registry) ==
    LET summary == summary_loop(registry, DOMAIN registry, EmptySummary)
    IN [models |-> [key \in DOMAIN registry |-> model_status(registry[key])],
        summary |-> [total_models |-> summary.total_models,
                     trained_models |-> summary.trained_models,
                     total_samples |-> summary.total_samples,
                     ready |-> summary.trained_models > 0]]

\* GET /api/models/status
ModelsStatus ==
    /\ phase = "serving"
    /\ last_op' = [op |-> "status", status |-> models_status(models)]
    /\ UNCHANGED <<conf_vars, trainer_vars, disk_vars, models, scalers, current_count, clock,
                   phase, to_load, pred, threads, norm>>

\* the process ends and python server.py starts again
Restart ==
    /\ phase = "serving"
    /\ clock < MaxOps
    /\ clock' = clock + 1
    /\ models' = <<>>
    /\ scalers' = <<>>
    /\ current_count' = Unset
    /\ phase' = "boot"
    /\ to_load' = <<<<MGC, "long">>, <<MGC, "short">>>>
    /\ last_op' = [op |-> "restart"]
    /\ threads' = <<>>
    /\ UNCHANGED <<conf_vars, trainer_vars, disk_vars, pred, norm>>

(***************************************************************************)
(* POST /api/predict and AgenticGP.predict  (server.py 152-281, 474-505)   *)
(* A request's features are a JSON array (array) or a JSON object, kept as *)
(* its (name, value) pairs in insertion order (items).                     *)
(***************************************************************************)
MaxExtra == 2

\* features.get(name, default)
features_get(items, name, default) ==
    IF \E i \in 1..Len(items) : items[i][1] = name
    THEN items[CHOOSE i \in 1..Len(items) : items[i][1] = name][2]
    ELSE default

\* str < str: code point by code point, a proper prefix first
RECURSIVE LexLess(_, _)
LexLess(a, b) ==
    IF a = <<>> THEN b # <<>>
    ELSE IF b = <<>> THEN FALSE
    ELSE IF Head(a) < Head(b) THEN TRUE
    ELSE IF Head(a) > Head(b) THEN FALSE
    ELSE LexLess(Tail(a), Tail(b))

\* sorted(features.keys()): the keys of a map are distinct, so each key's
\* place is one more than the number of keys below it
sorted_keys(items) ==
    LET n == Len(items)
        place == SubSeq([j \in 1..n |->
                     1 + Cardinality({k \in 1..n : LexLess(items[k][1], items[j][1])})], 1, n)
        at == [r \in 1..n |-> CHOOSE j \in 1..n : place[j] = r]
    IN [r \in 1..n |-> items[at[r]][1]]

\* a vector builder that orders every feature map by its sorted keys
features_to_array_sorted_only(model, req) ==
    IF req.is_dict
    THEN LET feature_names == sorted_keys(req.items)
         IN [i \in 1..Len(feature_names) |-> features_get(req.items, feature_names[i], 0)]
    ELSE req.array

\* lines 163-175: the names whose values make up the vector of a feature map
feature_order(model, req) ==
    IF "feature_names" \in DOMAIN model THEN model.feature_names
    ELSE sorted_keys(req.items)

\* lines 161-177: the request's features as an ordered vector
features_to_array(model, req) ==
    IF req.is_dict
    THEN LET names == feature_order(model, req)
         IN [i \in 1..Len(names) |-> features_get(req.items, names[i], 0)]
    ELSE req.array

\* a padding step that leaves a short vector as it is
pad_nothing(features_array) == features_array

\* lines 188-192: padded = np.zeros(100); padded[:len(features_array)] = features_array
pad(features_array) ==
    [i \in 1..EXPECTED_FEATURES |->
        IF i <= Len(features_array) THEN features_array[i] ELSE 0]

\* a truncation that keeps the last 100 entries
truncate_keep_tail(features_array) ==
    SubSeq(features_array, Len(features_array) - EXPECTED_FEATURES + 1, Len(features_array))

\* line 195: features_array[:EXPECTED_FEATURES]
truncate(features_array) == SubSeq(features_array, 1, EXPECTED_FEATURES)

\* lines 186-197
match_expected_features(features_array) ==
    IF Len(features_array) < EXPECTED_FEATURES THEN pad(features_array)
    ELSE IF Len(features_array) > EXPECTED_FEATURES THEN truncate(features_array)
    ELSE features_array

\* a width check that only rejects a row with too few columns
n_features_mismatch_only_if_short(n_features_in, row) == n_features_in > Len(row)

\* transform of a fitted selector or scaler (lines 209 and 214) raises
\* ValueError unless the row has the n_features_in_ columns it was fitted on
n_features_mismatch(n_features_in, row) == n_features_in # Len(row)

\* a transform that hands every column on
select_columns_keeps_all(mask, features_array) == features_array

\* VarianceThreshold.transform: the columns of the support mask
select_columns(mask, features_array) ==
    LET idx == SelectSeq([i \in 1..Len(mask) |-> i], LAMBDA i : mask[i])
    IN [k \in 1..Len(idx) |-> features_array[idx[k]]]

\* estimator.predict on a row of the given width raises
predict_raises(estimator, width) ==
    \/ estimator = NoneValue
    \/ ~estimator.fitted
    \/ estimator.width # width

\* a request before it is handled
PredictRequest(instrument, direction, is_dict, array, items, gp) ==
    [called |-> FALSE, instrument |-> instrument, direction |-> direction,
     is_dict |-> is_dict, array |-> array, items |-> items, gp |-> gp,
     status |-> "pending", built |-> FALSE, names |-> <<>>, ordered |-> <<>>,
     features_array |-> <<>>, features_selected |-> <<>>, http |-> 0, pnl |-> "None",
     trajectory |-> [mean |-> "None", std |-> "None"],
     risk |-> [suggested_sl |-> "None", suggested_tp |-> "None"],
     confidence |-> 0, model_confidence |-> 0, sample_count |-> 0]

\* the route's answer to an exception of gp_engine.predict (lines 506-508)
error_response(req, status) == [req EXCEPT !.status = status, !.http = 500]

\* a call that gives up as soon as any of the three models raises
predict_status_any_failure_aborts(pnl_raises, trajectory_raises, risk_raises) ==
    IF pnl_raises \/ trajectory_raises \/ risk_raises THEN "pnl_raises" ELSE "ok"

\* lines 216-281: the inner try blocks swallow what the trajectory and risk
\* models raise, the outer one re-raises what the PnL model raises
predict_status(pnl_raises, trajectory_raises, risk_raises) ==
    IF pnl_raises THEN "pnl_raises" ELSE "ok"

\* the route and AgenticGP.predict; req.gp is what the fitted PnL GP answers
\* for this row, with the hash of str(pnl_std) in this process
predict(req) ==
    LET key == get_model_key(req.instrument, req.direction)
        done == [req EXCEPT !.called = TRUE]
        features == IF req.is_dict THEN req.items ELSE req.array
        model == models[key]
        ordered == features_to_array(model, req)
        features_array == match_expected_features(ordered)
        built == [done EXCEPT !.built = TRUE,
                              !.names = IF req.is_dict THEN feature_order(model, req)
                                        ELSE <<>>,
                              !.ordered = ordered,
                              !.features_array = features_array]
        has_selector == "feature_selector" \in DOMAIN model
        selector_raises ==
            has_selector /\ (~model.feature_selector.fitted
                             \/ n_features_mismatch(Len(model.feature_selector.mask),
                                                    features_array))
        features_selected ==
            IF has_selector THEN select_columns(model.feature_selector.mask, features_array)
            ELSE features_array
        selected == [built EXCEPT !.features_selected = features_selected]
        width == Len(features_selected)
        scaler_raises ==
            \/ key \notin DOMAIN scalers
            \/ ~scalers[key].fitted
            \/ n_features_mismatch(scalers[key].n_features_in, features_selected)
        pnl_raises == predict_raises(model.pnl_gp, width) \/ req.gp.raises
        trajectory_raises ==
            predict_raises(model.trajectory_gp, width) \/ req.gp.trajectory_raises
        risk_raises == predict_raises(model.risk_gp, width) \/ req.gp.risk_raises
        count == Get(model, "sample_count", 0)
    IN IF Len(features) = 0
       THEN [pred |-> [done EXCEPT !.status = "missing_fields", !.http = 400],
             current_count |-> current_count]
       ELSE IF key \notin DOMAIN models \/ ~models[key].trained
       THEN [pred |-> error_response(done, "not_trained"), current_count |-> current_count]
       ELSE IF selector_raises
       THEN [pred |-> error_response(built, "selector_raises"),
             current_count |-> current_count]
       ELSE IF scaler_raises
       THEN [pred |-> error_response(selected, "scaler_raises"),
             current_count |-> current_count]
       ELSE IF predict_status(pnl_raises, trajectory_raises, risk_raises) # "ok"
       THEN [pred |-> error_response(selected, "pnl_raises"),
             current_count |-> current_count]
       ELSE [pred |-> [selected EXCEPT
                          !.status = "ok",
                          !.http = 200,
                          !.pnl = "value",
                          !.trajectory = IF trajectory_raises
                                         THEN [mean |-> "None", std |-> "None"]
                                         ELSE [mean |-> "value", std |-> "value"],
                          !.risk = IF risk_raises
                                   THEN [suggested_sl |-> "None", suggested_tp |-> "None"]
                                   ELSE [suggested_sl |-> "value", suggested_tp |-> "value"],
                          !.confidence = calculate_confidence(req.gp.mean, req.gp.std,
                                                              count, req.gp.hash),
                          !.model_confidence = model_confidence(count),
                          !.sample_count = model.sample_count],
             current_count |-> count]

\* a predict that creates the entry of a key it does not find
predict_store_initializes_missing(req) ==
    LET key == get_model_key(req.instrument, req.direction)
    IN [models |-> IF key \in DOMAIN models THEN models ELSE (key :> NewModel) @@ models,
        scalers |-> IF key \in DOMAIN scalers THEN scalers ELSE (key :> NoFit) @@ scalers]

\* self.models and self.scalers after AgenticGP.predict: the method binds
\* model = self.models[key], calls transform and predict on the fitted
\* objects, and assigns to neither dictionary nor to an entry
predict_store(req) == [models |-> models, scalers |-> scalers]

Predict ==
    /\ ~pred.called
    /\ LET r == predict(pred)
           store == predict_store(pred)
       IN /\ pred' = r.pred
          /\ current_count' = r.current_count
          /\ models' = store.models
          /\ scalers' = store.scalers
    /\ UNCHANGED <<conf_vars, trainer_vars, disk_vars, clock, last_op,
                   phase, to_load, threads, norm>>

\* python server.py starts with models_dir empty or holding the artifacts of
\* an enhanced trainer run
InitStore ==
    /\ conf = ConfArgs(0, 0, Unset, 0)
    /\ trainer = "enhanced"
    /\ files = <<>>
    /\ queue = <<>>
    /\ job = IdleJob
    /\ inst = NewInstance
    /\ outcome = <<>>
    /\ \/ /\ disk_models = <<>>
          /\ disk_scalers = <<>>
       \/ /\ disk_models = [k \in Keys |-> OldBundle(k)]
          /\ disk_scalers = [k \in Keys |-> OldScaler]
    /\ disk_metrics = <<>>
    /\ models = <<>>
    /\ scalers = <<>>
    /\ current_count = Unset
    /\ clock = 0
    /\ last_op = NoOp
    /\ phase = "boot"
    /\ to_load = <<<<MGC, "long">>, <<MGC, "short">>>>
    /\ pred = NoPred
    /\ threads = <<>>
    /\ norm = NoNorm

NextStore ==
    \/ LoadModel
    \/ TrainModel
    \/ UpdateOnline
    \/ ModelsStatus
    \/ Restart

SpecStore == InitStore /\ [][NextStore]_vars

\* the requests of the prediction runs
FeatureLengths ==
    {0, 1, 2, 12, EXPECTED_FEATURES - 1, EXPECTED_FEATURES}
    \cup {EXPECTED_FEATURES + k : k \in 1..MaxExtra}
ValuePatterns == {"ramp", "flat"}
ValueOf(pattern, i) == IF pattern = "ramp" THEN i ELSE 7
ArrayOf(n, pattern) == [i \in 1..n |-> ValueOf(pattern, i)]
\* a feature map with the names of columns 1..n, inserted from n down to 1
ItemsOf(n, pattern) == [j \in 1..n |-> <<FeatureName(n + 1 - j), ValueOf(pattern, n + 1 - j)>>]
GpAnswer(raises, trajectory_raises, risk_raises, mean, std, hash) ==
    [raises |-> raises, trajectory_raises |-> trajectory_raises, risk_raises |-> risk_raises,
     mean |-> mean, std |-> std, hash |-> hash]
GpAnswers ==
    {GpAnswer(FALSE, FALSE, FALSE, 12, 10, 0),
     GpAnswer(FALSE, FALSE, FALSE, -400, 300, 99),
     GpAnswer(FALSE, TRUE, FALSE, 12, 10, 0),
     GpAnswer(FALSE, FALSE, TRUE, 12, 10, 0),
     GpAnswer(TRUE, FALSE, FALSE, 0, 0, 0)}
PredictRequests ==
    {PredictRequest(i, d, FALSE, ArrayOf(n, p), <<>>, gp) :
        i \in ServiceInstruments, d \in Directions, n \in FeatureLengths,
        p \in ValuePatterns, gp \in GpAnswers}
    \cup
    {PredictRequest(i, d, TRUE, <<>>, ItemsOf(n, p), gp) :
        i \in ServiceInstruments, d \in Directions, n \in FeatureLengths,
        p \in ValuePatterns, gp \in GpAnswers}

\* the exports a loaded trainer bundle can come from
WideFile(w, pattern) ==
    [n |-> 2 * MIN_SAMPLES, cols |-> Columns(w, pattern), feat_bad |-> FALSE,
     pnl |-> [bad |-> FALSE, k |-> 1, delta |-> 1000], names_given |-> TRUE]
BundleFiles ==
    {OldFile, WideFile(EXPECTED_FEATURES, "some_const"),
     WideFile(EXPECTED_FEATURES, "all_vary"),
     WideFile(EXPECTED_FEATURES + MaxExtra, "all_vary")}

\* the model train_model leaves for a new key when every step succeeds on a
\* feature matrix of w columns
ServiceTrainedAt(w) ==
    [NewModel EXCEPT !.pnl_gp = Fit("pnl", ServiceRun(1), w),
                     !.trajectory_gp = Fit("trajectory", ServiceRun(1), w),
                     !.risk_gp = Fit("risk", ServiceRun(1), w),
                     !.trained = TRUE, !.last_updated = 1, !.sample_count = 150]
ServiceTrained == ServiceTrainedAt(EXPECTED_FEATURES)

\* /api/train takes a matrix of any width
OtherWidths == {1, SmallWidth, EXPECTED_FEATURES + MaxExtra}

\* the model train_model leaves when the request carried PnL targets only
ServiceTrainedPnlOnly ==
    [NewModel EXCEPT !.pnl_gp = Fit("pnl", ServiceRun(1), EXPECTED_FEATURES),
                     !.trained = TRUE, !.last_updated = 1, !.sample_count = 150]

\* the registry of a serving process: empty, a key whose first training
\* failed, a key trained through /api/train, or a key loaded at start-up
Registries ==
    LET key == <<MGC, "long">>
    IN {[models |-> <<>>, scalers |-> <<>>],
        [models |-> (key :> NewModel), scalers |-> (key :> NoFit)],
        [models |-> (key :> ServiceTrained),
         scalers |-> (key :> Scaler("Standard", ServiceRun(1), EXPECTED_FEATURES))],
        [models |-> (key :> ServiceTrainedPnlOnly),
         scalers |-> (key :> Scaler("Standard", ServiceRun(1), EXPECTED_FEATURES))]}
       \cup {[models |-> (key :> restructure(TrainedBundle(key, f), 1)),
              scalers |-> (key :> TrainedScaler(f))] : f \in BundleFiles}
       \cup {[models |-> (key :> ServiceTrainedAt(w)),
              scalers |-> (key :> Scaler("Standard", ServiceRun(1), w))] : w \in OtherWidths}

InitFeat ==
    /\ conf = ConfArgs(0, 0, Unset, 0)
    /\ trainer = "enhanced"
    /\ files = <<>>
    /\ queue = <<>>
    /\ job = IdleJob
    /\ inst = NewInstance
    /\ outcome = <<>>
    /\ \/ /\ disk_models = <<>>
          /\ disk_scalers = <<>>
       \/ /\ disk_models = [k \in Keys |-> OldBundle(k)]
          /\ disk_scalers = [k \in Keys |-> OldScaler]
    /\ disk_metrics = <<>>
    /\ \E r \in Registries :
        /\ models = r.models
        /\ scalers = r.scalers
    /\ current_count = Unset
    /\ clock = 1
    /\ last_op = NoOp
    /\ phase = "serving"
    /\ to_load = <<>>
    /\ pred \in PredictRequests
    /\ threads = <<>>
    /\ norm = NoNorm

NextFeat == Predict

SpecFeat == InitFeat /\ [][NextFeat]_vars

(***************************************************************************)
(* Concurrent requests: app.run serves every request in a thread of its    *)
(* own, all of them calling the one gp_engine (server.py 428-429, 763).    *)
(* A request runs predict up to the model predictions (lines 154-244),     *)
(* then stores the sample count in the engine (line 248), then computes    *)
(* the confidence from it (lines 251, 326-336).                            *)
(***************************************************************************)
MaxThreads == 2

\* lines 154-244 of one request: everything before the engine attribute is
\* written; a request that fails is answered here
ThreadPredict(th) ==
    /\ threads[th].pc = "start"
    /\ LET r == predict(threads[th].req).pred
       IN threads' = [threads EXCEPT ![th] =
                        [pc |-> IF r.status = "ok" THEN "predicted" ELSE "done",
                         req |-> [r EXCEPT !.confidence = 0, !.model_confidence = 0]]]
    /\ UNCHANGED <<conf_vars, trainer_vars, disk_vars, models, scalers, current_count, clock,
                   last_op, phase, to_load, pred, norm>>

\* line 248: self._current_model_sample_count = model.get('sample_count', 0)
ThreadSetCount(th) ==
    /\ threads[th].pc = "predicted"
    /\ current_count' =
         Get(models[get_model_key(threads[th].req.instrument, threads[th].req.direction)],
             "sample_count", 0)
    /\ threads' = [threads EXCEPT ![th].pc = "count_set"]
    /\ UNCHANGED <<conf_vars, trainer_vars, disk_vars, models, scalers, clock,
                   last_op, phase, to_load, pred, norm>>

\* line 251: self.calculate_confidence(pnl_std[0], trajectory_std, pnl_mean[0]),
\* which reads self._current_model_sample_count
ThreadConfidence(th) ==
    /\ threads[th].pc = "count_set"
    /\ LET gp == threads[th].req.gp
       IN threads' = [threads EXCEPT
                        ![th].pc = "done",
                        ![th].req.confidence =
                            calculate_confidence(gp.mean, gp.std, current_count, gp.hash),
                        ![th].req.model_confidence = model_confidence(current_count)]
    /\ UNCHANGED <<conf_vars, trainer_vars, disk_vars, models, scalers, current_count, clock,
                   last_op, phase, to_load, pred, norm>>

\* two keys with different sample counts: one trained through /api/train,
\* one loaded at start-up from a trainer bundle
ConcurrentRegistry ==
    LET long == <<MGC, "long">>
        short == <<MGC, "short">>
        f == WideFile(EXPECTED_FEATURES, "all_vary")
    IN [models |-> (long :> ServiceTrained)
                   @@ (short :> restructure(TrainedBundle(short, f), 1)),
        scalers |-> (long :> Scaler("Standard", ServiceRun(1), EXPECTED_FEATURES))
                    @@ (short :> TrainedScaler(f))]

ConcurrentRequests ==
    {PredictRequest(MGC, d, FALSE, ArrayOf(2, "ramp"), <<>>, gp) :
        d \in Directions,
        gp \in {GpAnswer(FALSE, FALSE, FALSE, 12, 10, 0),
                GpAnswer(FALSE, FALSE, FALSE, -400, 300, 99),
                GpAnswer(TRUE, FALSE, FALSE, 0, 0, 0)}}

InitConcurrent ==
    /\ conf = ConfArgs(0, 0, Unset, 0)
    /\ trainer = "enhanced"
    /\ files = <<>>
    /\ queue = <<>>
    /\ job = IdleJob
    /\ inst = NewInstance
    /\ outcome = <<>>
    /\ disk_models = <<>>
    /\ disk_scalers = <<>>
    /\ disk_metrics = <<>>
    /\ models = ConcurrentRegistry.models
    /\ scalers = ConcurrentRegistry.scalers
    /\ current_count = Unset
    /\ clock = 1
    /\ last_op = NoOp
    /\ phase = "serving"
    /\ to_load = <<>>
    /\ pred = NoPred
    /\ threads \in [1..MaxThreads -> {[pc |-> "start", req |-> r] : r \in ConcurrentRequests}]
    /\ norm = NoNorm

NextConcurrent ==
    \E th \in 1..MaxThreads :
        \/ ThreadPredict(th)
        \/ ThreadSetCount(th)
        \/ ThreadConfidence(th)

SpecConcurrent == InitConcurrent /\ [][NextConcurrent]_vars

InitNorm ==
    /\ conf = ConfArgs(0, 0, Unset, 0)
    /\ trainer = "enhanced"
    /\ files = <<>>
    /\ queue = <<>>
    /\ job = IdleJob
    /\ inst = NewInstance
    /\ outcome = <<>>
    /\ disk_models = <<>>
    /\ disk_scalers = <<>>
    /\ disk_metrics = <<>>
    /\ models = <<>>
    /\ scalers = <<>>
    /\ current_count = Unset
    /\ clock = 0
    /\ last_op = NoOp
    /\ phase = "boot"
    /\ to_load = <<>>
    /\ pred = NoPred
    /\ threads = <<>>
    /\ \E x \in Instruments : norm = [called |-> FALSE, instrument |-> x]

NextNorm == NormalizeInstrumentName

SpecNorm == InitNorm /\ [][NextNorm]_vars

(***************************************************************************)
(* C5 (as claimed): normalize_instrument_name is idempotent: for every     *)
(* string x, normalize(normalize(x)) = normalize(x); and "MGC AUG25" and   *)
(* "MGC" both normalize to "MGC".                                          *)
(***************************************************************************)
NormalizeIdempotent ==
    norm.called =>
        /\ norm.twice = norm.once
        /\ norm.instrument = MGC \o <<" ">> \o <<"A", "U", "G">> \o <<"2", "5">> => norm.once = MGC
        /\ norm.instrument = MGC => norm.once = MGC

(***************************************************************************)
(* Helpers of the training claims                                          *)
(***************************************************************************)
\* the job for key has been taken from the queue and has returned
JobReturned(key) == key \in DOMAIN outcome

\* the running job is the one for key
JobRunning(key) == job.pc # "idle" /\ job.key = key

\* the artifacts of key are those models_dir held before the run
NothingPersisted(key) ==
    /\ key \in DOMAIN disk_models => disk_models[key] = OldBundle(key)
    /\ key \in DOMAIN disk_scalers => disk_scalers[key] = OldScaler
    /\ key \notin DOMAIN disk_metrics

\* the job for key fails at validation or before: it never gets past Loaded,
\* it returns False, and it writes nothing
FailsValidation(key) ==
    /\ JobRunning(key) => job.pc = "loaded"
    /\ JobReturned(key) => outcome[key] = FALSE
    /\ (job.pc = "idle" /\ queue = <<>>) => JobReturned(key)
    /\ NothingPersisted(key)

(***************************************************************************)
(* C6: a per-key training job, in either trainer, whose dataset has fewer  *)
(* than 20 samples ends in a validation failure: it returns False without  *)
(* raising and writes no bundle or scaler file for the key.                *)
(***************************************************************************)
TooFewSamplesFails ==
    \A key \in DOMAIN files :
        files[key].n < MIN_SAMPLES => FailsValidation(key)

\* a 19-sample file that loaded and whose job has returned False
TooFewSamplesFailsWitness ==
    \E key \in DOMAIN files :
        /\ files[key].n = MIN_SAMPLES - 1
        /\ ~load_raises(trainer, files[key])
        /\ ~files[key].feat_bad /\ ~files[key].pnl.bad
        /\ JobReturned(key) /\ outcome[key] = FALSE

(***************************************************************************)
(* C7 (as claimed): a per-key training job whose PnL targets have variance *)
(* below the threshold returns failure and persists nothing, in every      *)
(* trainer.                                                                *)
(***************************************************************************)
LowVarianceFails ==
    \A key \in DOMAIN files :
        pnl_var_below_threshold(files[key]) =>
            /\ JobReturned(key) => outcome[key] = FALSE
            /\ NothingPersisted(key)

(***************************************************************************)
(* C8: a per-key training job in which a feature value or a PnL target is  *)
(* NaN or +/-Inf fails the Loaded -> Validated transition: the job returns *)
(* False, no fit is run and nothing is persisted for the key.              *)
(***************************************************************************)
NanInfFails ==
    \A key \in DOMAIN files :
        (files[key].feat_bad \/ files[key].pnl.bad) => FailsValidation(key)

\* a file with enough samples and a learnable finite-variance shape but a
\* NaN/Inf PnL target, rejected by the enhanced trainer
NanInfFailsWitness ==
    \E key \in DOMAIN files :
        /\ trainer = "enhanced"
        /\ files[key].n >= MIN_SAMPLES
        /\ files[key].pnl.bad /\ ~files[key].feat_bad
        /\ JobReturned(key) /\ outcome[key] = FALSE

(***************************************************************************)
(* C9: the steps of a job run in the order Loaded, Validated,              *)
(* Preprocessed, PnL fit, trajectory fit, risk fit, Persisted; a file of   *)
(* the key is written only by a job that passed validation and completed   *)
(* all three fits, so a job that lost a fit returns False having written   *)
(* nothing, and a bundle that is written holds the three models fitted by  *)
(* that one job.                                                           *)
(***************************************************************************)
StepOrder ==
    {<<"idle", "idle">>, <<"idle", "loaded">>,
     <<"loaded", "validated">>, <<"loaded", "idle">>,
     <<"validated", "preprocessed">>, <<"validated", "idle">>,
     <<"preprocessed", "pnl_fit">>, <<"preprocessed", "idle">>,
     <<"pnl_fit", "trajectory_fit">>, <<"pnl_fit", "idle">>,
     <<"trajectory_fit", "risk_fit">>, <<"trajectory_fit", "idle">>,
     <<"risk_fit", "bundle_written">>, <<"risk_fit", "idle">>,
     <<"bundle_written", "idle">>}

AllThreeFitted(j) ==
    /\ j.pnl_gp.fitted /\ j.pnl_gp.job = j.id
    /\ j.trajectory_gp.fitted /\ j.trajectory_gp.job = j.id
    /\ j.risk_gp.fitted /\ j.risk_gp.job = j.id

BundleCommitStep ==
    /\ <<job.pc, job'.pc>> \in StepOrder
    /\ <<disk_models, disk_scalers, disk_metrics>>' # <<disk_models, disk_scalers, disk_metrics>> =>
        /\ job.pc \in {"risk_fit", "bundle_written"}
        /\ validate_data(trainer, job.data)
        /\ AllThreeFitted(job)
        /\ \A key \in Keys \ {job.key} :
            /\ (key \in DOMAIN disk_models) = (key \in DOMAIN disk_models')
            /\ key \in DOMAIN disk_models => disk_models'[key] = disk_models[key]
    /\ (job.pc # "idle" /\ job'.pc = "idle" /\ job.pc \notin {"risk_fit", "bundle_written"}) =>
        /\ outcome'[job.key] = FALSE
        /\ UNCHANGED <<disk_models, disk_scalers, disk_metrics>>
    /\ \A key \in DOMAIN disk_models' :
        (key \notin DOMAIN disk_models \/ disk_models'[key] # disk_models[key]) =>
            \/ disk_models'[key] = Corrupt
            \/ /\ disk_models'[key].pnl_gp = job.pnl_gp
               /\ disk_models'[key].trajectory_gp = job.trajectory_gp
               /\ disk_models'[key].risk_gp = job.risk_gp

AllOrNothingBundle == [][BundleCommitStep]_vars

\* a job that returned True, its bundle on disk with the three models it fitted
AllOrNothingBundleWitness ==
    \E key \in DOMAIN outcome :
        /\ outcome[key] = TRUE
        /\ key \in DOMAIN disk_models
        /\ disk_models[key].pnl_gp = Fit("pnl", 1, disk_models[key].pnl_gp.width)
        /\ disk_models[key].trajectory_gp.job = 1
        /\ disk_models[key].risk_gp.job = 1

\* the registry entry a handled request was answered from
ModelOf(req) == models[get_model_key(req.instrument, req.direction)]

\* the request got as far as building its feature vector
VectorBuilt == pred.called /\ pred.built

(***************************************************************************)
(* C2: when the ordered feature vector predict builds from the request has *)
(* n < 100 entries, the vector handed on to selection and scaling has     *)
(* exactly 100 entries: the n ordered values unchanged, then zeros.        *)
(***************************************************************************)
ShortVectorZeroPadded ==
    (VectorBuilt /\ Len(pred.ordered) < EXPECTED_FEATURES) =>
        /\ Len(pred.features_array) = EXPECTED_FEATURES
        /\ \A i \in 1..EXPECTED_FEATURES :
            pred.features_array[i] = IF i <= Len(pred.ordered) THEN pred.ordered[i] ELSE 0

\* an answered request whose 12 non-zero values were padded to 100
ShortVectorZeroPaddedWitness ==
    /\ VectorBuilt
    /\ pred.status = "ok"
    /\ Len(pred.ordered) = 12
    /\ \A i \in 1..12 : pred.ordered[i] # 0
    /\ Len(pred.features_array) = EXPECTED_FEATURES

(***************************************************************************)
(* C3: when the ordered feature vector predict builds from the request has *)
(* n > 100 entries, the vector handed on to selection and scaling is its   *)
(* first 100 entries in their order; only the tail is dropped.             *)
(***************************************************************************)
LongVectorKeepsPrefix ==
    (VectorBuilt /\ Len(pred.ordered) > EXPECTED_FEATURES) =>
        /\ Len(pred.features_array) = EXPECTED_FEATURES
        /\ \A i \in 1..EXPECTED_FEATURES : pred.features_array[i] = pred.ordered[i]

\* an answered request with more than 100 distinct values, of which the
\* first 100 went on
LongVectorKeepsPrefixWitness ==
    /\ VectorBuilt
    /\ pred.status = "ok"
    /\ Len(pred.ordered) > EXPECTED_FEATURES
    /\ pred.ordered[1] # pred.ordered[EXPECTED_FEATURES + 1]
    /\ Len(pred.features_array) = EXPECTED_FEATURES

(***************************************************************************)
(* C4: for a feature map, a bundle with feature_names gives a vector with  *)
(* one entry per name of feature_names, in that order, the map's value for *)
(* the name or 0 when the map lacks it, and map keys outside feature_names *)
(* are ignored; a bundle without feature_names gives the map's values in   *)
(* sorted-key order. A missing name never stops the request.               *)
(***************************************************************************)
FeatureMapOrdered ==
    (pred.called /\ pred.is_dict /\ pred.status \notin {"missing_fields", "not_trained"}) =>
        /\ pred.built
        /\ IF "feature_names" \in DOMAIN ModelOf(pred)
           THEN LET names == ModelOf(pred).feature_names
                IN /\ Len(pred.ordered) = Len(names)
                   /\ \A i \in 1..Len(names) :
                        /\ \A j \in 1..Len(pred.items) :
                            pred.items[j][1] = names[i] => pred.ordered[i] = pred.items[j][2]
                        /\ (\A j \in 1..Len(pred.items) : pred.items[j][1] # names[i])
                            => pred.ordered[i] = 0
           ELSE /\ Len(pred.ordered) = Len(pred.items)
                /\ Len(pred.names) = Len(pred.items)
                /\ {pred.names[i] : i \in 1..Len(pred.names)}
                       = {pred.items[j][1] : j \in 1..Len(pred.items)}
                /\ \A i \in 1..(Len(pred.names) - 1) :
                        LexLess(pred.names[i], pred.names[i + 1])
                /\ \A i \in 1..Len(pred.names) : \A j \in 1..Len(pred.items) :
                        pred.items[j][1] = pred.names[i] => pred.ordered[i] = pred.items[j][2]

\* an answered request whose map lacks a name of feature_names and carries a
\* key that feature_names does not list
FeatureMapOrderedWitness ==
    /\ VectorBuilt
    /\ pred.is_dict
    /\ pred.status = "ok"
    /\ "feature_names" \in DOMAIN ModelOf(pred)
    /\ LET names == ModelOf(pred).feature_names
           keys == {pred.items[j][1] : j \in 1..Len(pred.items)}
       IN /\ \E i \in 1..Len(names) : names[i] \notin keys /\ pred.ordered[i] = 0
          /\ \E i \in 1..Len(names) : names[i] \in keys /\ pred.ordered[i] # 0
          /\ \E k \in keys : \A i \in 1..Len(names) : names[i] # k

\* the sample count a bundle file records: training_info.n_samples in the
\* trainer shape, the top-level sample_count in the service shape
SavedSampleCount(file) ==
    IF "training_info" \in DOMAIN file THEN file.training_info.n_samples
    ELSE Get(file, "sample_count", 0)

SavedSelector(bundle) == Get(bundle, "feature_selector", NoneValue)

(***************************************************************************)
(* C10: a bundle saved for a key and reloaded by load_model comes back     *)
(* with the sample_count, the feature-selector mask and the scaler that    *)
(* were saved, in the service shape written by save_model as well as in    *)
(* the trainer shape with training_info.                                   *)
(***************************************************************************)
RoundTripPreserved ==
    (last_op.op = "load" /\ last_op.result = "True") =>
        LET key == last_op.key
        IN /\ models[key].sample_count = SavedSampleCount(disk_models[key])
           /\ SavedSelector(models[key]) = SavedSelector(disk_models[key])
           /\ scalers[key] = disk_scalers[key]

\* the request named a key without a trained bundle and carried every field
UntrainedKeyRequested ==
    /\ pred.called
    /\ pred.status # "missing_fields"
    /\ LET key == get_model_key(pred.instrument, pred.direction)
       IN key \notin DOMAIN models \/ ~models[key].trained

(***************************************************************************)
(* C11: a POST /api/predict for a key that has no bundle in the registry,  *)
(* or whose bundle has trained = False, is answered with an error body and *)
(* a 4xx status code, never with a prediction.                             *)
(***************************************************************************)
UntrainedKeyAnswered4xx ==
    UntrainedKeyRequested =>
        /\ pred.http \in 400..499
        /\ pred.pnl = "None"

(***************************************************************************)
(* C12: in predict a trajectory model that raises leaves trajectory.mean   *)
(* and trajectory.std null, a risk model that raises leaves suggested_sl   *)
(* and suggested_tp null, and either way the result still carries the PnL  *)
(* prediction and the confidence; a PnL model that raises makes predict    *)
(* raise, with no result.                                                  *)
(***************************************************************************)
SecondaryFailuresDegrade ==
    (pred.called /\ pred.built /\ pred.status \notin {"selector_raises", "scaler_raises"}) =>
        LET model == ModelOf(pred)
            width == model.pnl_gp.width
        IN /\ pred.gp.raises => (pred.status = "pnl_raises" /\ pred.pnl = "None")
           /\ ~pred.gp.raises =>
                /\ pred.status = "ok"
                /\ pred.pnl = "value"
                /\ 10 * pred.confidence >= ConfDen(pred.gp.std)
                /\ (pred.gp.trajectory_raises \/ predict_raises(model.trajectory_gp, width))
                        => pred.trajectory = [mean |-> "None", std |-> "None"]
                /\ (pred.gp.risk_raises \/ predict_raises(model.risk_gp, width))
                        => pred.risk = [suggested_sl |-> "None", suggested_tp |-> "None"]
                /\ ~(pred.gp.risk_raises \/ predict_raises(model.risk_gp, width))
                        => pred.risk = [suggested_sl |-> "value", suggested_tp |-> "value"]
                /\ ~(pred.gp.trajectory_raises \/ predict_raises(model.trajectory_gp, width))
                        => pred.trajectory = [mean |-> "value", std |-> "value"]

\* a trajectory model that raised while the risk model answered, the result
\* carrying the PnL prediction, the risk levels and the confidence
SecondaryFailuresDegradeWitness ==
    /\ pred.called
    /\ pred.status = "ok"
    /\ pred.gp.trajectory_raises
    /\ pred.trajectory = [mean |-> "None", std |-> "None"]
    /\ pred.risk = [suggested_sl |-> "value", suggested_tp |-> "value"]
    /\ pred.pnl = "value"
    /\ pred.confidence > 0

\* the three bands of pnl_std: [0, 20), [20, 50), [50, inf)
StdBand(s) == IF s < 20 THEN 1 ELSE IF s < 50 THEN 2 ELSE 3

(***************************************************************************)
(* C13: with pnl_mean = 0 and the sample count fixed, for two pnl_std      *)
(* values s1 < s2 of the same band, the confidence returned for s1 is at   *)
(* least the confidence returned for s2 (whatever the residues of the two  *)
(* string hashes).  The call in conf is the one for s1; both sides are     *)
(* compared over the product of their denominators.                        *)
(***************************************************************************)
ConfidenceMonotoneInStd ==
    (conf.called /\ conf.pnl_mean = 0 /\ conf.pnl_std <= MaxStd) =>
        \A s2 \in 0..MaxStd : \A h2 \in HashValues :
            (conf.pnl_std < s2 /\ StdBand(conf.pnl_std) = StdBand(s2)) =>
                conf.confidence * StdDiv(s2)
                    >= calculate_confidence(0, s2, conf.sample_count, h2) * StdDiv(conf.pnl_std)

(***************************************************************************)
(* C14: under any interleaving of concurrent predict requests on           *)
(* different keys, the confidence a request returns is the one computed    *)
(* from the sample_count of its own key's bundle.                          *)
(***************************************************************************)
ConfidenceFromOwnKey ==
    \A th \in DOMAIN threads :
        (threads[th].pc = "done" /\ threads[th].req.status = "ok") =>
            LET req == threads[th].req
            IN req.confidence =
                 calculate_confidence(req.gp.mean, req.gp.std,
                                      ModelOf(req).sample_count, req.gp.hash)

\* the step is an update request that reached update_online or was refused
UpdateStep == last_op'.op = "update" /\ last_op' # last_op

(***************************************************************************)
(* C15: update_online and POST /api/update change no model: the registry,  *)
(* the scalers and the persisted files after the call are those before it; *)
(* update_online returns False for an unknown or untrained key and True    *)
(* otherwise.                                                              *)
(***************************************************************************)
UpdateOnlineChangesNothing ==
    [][UpdateStep =>
        /\ UNCHANGED <<models, scalers, disk_models, disk_scalers, disk_metrics>>
        /\ \/ last_op'.result = "400"
           \/ last_op'.result =
                IF last_op'.key \in DOMAIN models /\ models[last_op'.key].trained
                THEN "True" ELSE "False"]_vars

\* an update for a trained key that returned True, and one for a key the
\* registry does not hold that returned False
UpdateOnlineChangesNothingWitness ==
    /\ last_op.op = "update"
    /\ last_op.result = "True"
    /\ last_op.key \in DOMAIN models
    /\ models[last_op.key].trained
    /\ \E key \in Keys : key \notin DOMAIN models

\* what models_dir holds for key: bundle, scaler and metrics, each if present
PersistedFor(key) ==
    <<IF key \in DOMAIN disk_models THEN <<disk_models[key]>> ELSE <<>>,
      IF key \in DOMAIN disk_scalers THEN <<disk_scalers[key]>> ELSE <<>>,
      IF key \in DOMAIN disk_metrics THEN <<disk_metrics[key]>> ELSE <<>>>>

\* every discovered file whose name gives a key is returned, running or
\* still waiting in the loop
NoFileDropped ==
    {name \in DOMAIN files : well_named(name)}
        \subseteq DOMAIN outcome
                  \cup {queue[i] : i \in DOMAIN queue}
                  \cup (IF job.pc = "idle" THEN {} ELSE {job.key})

\* C16: in a batch, whatever the jobs before it returned, the loop goes on to
\* the next file while files remain, no file of a key is dropped, and a
\* step of the job for one key leaves what is persisted for every other key
\* unchanged.
BatchIsolation ==
    /\ [](NoFileDropped
           /\ (job.pc = "idle" /\ queue # <<>> => ENABLED (StartJob \/ SkipFile)))
    /\ [][\A key \in Keys :
            (job.pc = "idle" \/ job.key # key) => PersistedFor(key)' = PersistedFor(key)]_vars

\* the first job of a batch returned False, the second one ran after it and
\* persisted its bundle
BatchIsolationWitness ==
    /\ trainer = "enhanced"
    /\ queue = <<>>
    /\ job.pc = "idle"
    /\ \E failed, done \in Keys :
        /\ failed # done
        /\ JobReturned(failed) /\ ~outcome[failed]
        /\ JobReturned(done) /\ outcome[done]
        /\ done \in DOMAIN disk_models
        /\ disk_models[done] # Corrupt
        /\ disk_models[done].pnl_gp.job = 2

\* a step in which the predict call of the request is made
PredictStep == ~pred.called /\ pred'.called

\* C17: a predict call, whatever it answers, leaves every registry entry
\* (estimators, trained, sample_count, last_updated), every scaler and every
\* persisted file as it was before the call.
PredictChangesNoStore ==
    [][PredictStep => UNCHANGED <<models, scalers, disk_models, disk_scalers, disk_metrics>>]_vars

\* a predict call for a key the registry does not hold, on a registry that
\* holds another key, has been answered
PredictChangesNoStoreWitness ==
    /\ pred.called
    /\ pred.status = "not_trained"
    /\ get_model_key(pred.instrument, pred.direction) \notin DOMAIN models
    /\ DOMAIN models # {}

\* both artifacts of key are on disk and readable
BothArtifactsPresent(key) ==
    /\ key \in DOMAIN disk_models /\ disk_models[key] # Corrupt
    /\ key \in DOMAIN disk_scalers /\ disk_scalers[key] # Corrupt

\* C18: once a training job has returned, whatever it returned, the bundle
\* file and the standalone scaler file that models_dir holds for a key were
\* written by the same training run: the scaler load_model would pair with
\* the bundle is the one the bundle's models were fitted against.
BundleAndScalerFromSameRun ==
    \A key \in Keys :
        (job.pc = "idle" /\ BothArtifactsPresent(key)) =>
            /\ disk_scalers[key].fitted
            /\ disk_scalers[key].job = disk_models[key].pnl_gp.job

\* the key of the request is trained and its bundle carries a selector fitted
\* on EXPECTED_FEATURES columns
SelectorFittedOnExpectedWidth ==
    LET key == get_model_key(pred.instrument, pred.direction)
    IN /\ key \in DOMAIN models
       /\ models[key].trained
       /\ "feature_selector" \in DOMAIN models[key]
       /\ models[key].feature_selector.fitted
       /\ Len(models[key].feature_selector.mask) = EXPECTED_FEATURES

\* the call got past feature selection: a vector reached the scaler
VectorSelected == pred.called /\ pred.status \in {"scaler_raises", "pnl_raises", "ok"}

\* C19: for a bundle whose selector was fitted on 100 columns, every predict
\* call that carries features, map or array of any length, gets past the
\* selector, and the vector it hands to the scaler and the models has exactly
\* as many entries as the selector's mask retains.
SelectedWidthIsRetainedCount ==
    (pred.called /\ pred.status # "missing_fields" /\ SelectorFittedOnExpectedWidth) =>
        /\ VectorSelected
        /\ Len(pred.features_selected)
             = Cardinality(retained(ModelOf(pred).feature_selector.mask))

\* a request shorter than 100 was answered from a bundle whose selector
\* drops some of the 100 columns
SelectedWidthIsRetainedCountWitness ==
    /\ SelectorFittedOnExpectedWidth
    /\ pred.status = "ok"
    /\ Len(pred.ordered) < EXPECTED_FEATURES
    /\ Len(pred.features_selected) < EXPECTED_FEATURES
    /\ Len(pred.features_selected) > 0

\* the width the first fitted transform of the request's key was fitted on:
\* the selector's if the bundle has one, else the scaler's
FittedWidth ==
    LET key == get_model_key(pred.instrument, pred.direction)
    IN IF "feature_selector" \in DOMAIN models[key]
       THEN Len(models[key].feature_selector.mask)
       ELSE scalers[key].n_features_in

\* the key of the request is trained and was fitted on a width other than 100
FittedOnOtherWidth ==
    LET key == get_model_key(pred.instrument, pred.direction)
    IN /\ key \in DOMAIN models
       /\ models[key].trained
       /\ key \in DOMAIN scalers
       /\ scalers[key].fitted
       /\ FittedWidth # EXPECTED_FEATURES

\* C20: when the selector of the key (or, without a selector, its scaler)
\* was fitted on a width other than 100, whether the bundle came from a
\* trainer or from train_model, every predict call is answered with an
\* error and carries no prediction.
WidthMismatchAlwaysFails ==
    (pred.called /\ FittedOnOtherWidth) =>
        /\ pred.http \in {400, 500}
        /\ pred.status \in {"missing_fields", "selector_raises", "scaler_raises"}
        /\ pred.pnl = "None"

\* a request of 100 features for a key trained through train_model on a
\* narrower matrix was refused by the scaler
WidthMismatchAlwaysFailsWitness ==
    /\ pred.called
    /\ FittedOnOtherWidth
    /\ "feature_selector" \notin DOMAIN ModelOf(pred)
    /\ FittedWidth < EXPECTED_FEATURES
    /\ Len(pred.ordered) = EXPECTED_FEATURES
    /\ pred.status = "scaler_raises"
    /\ pred.http = 500

\* the keys of the registry whose trained flag is set
TrainedKeys == {key \in DOMAIN models : models[key].trained}

\* the sum of sample_count over a set of registry keys
RECURSIVE SamplesOf(_)
SamplesOf(keys) ==
    IF keys = {} THEN 0
    ELSE LET key == CHOOSE k \in keys : TRUE
         IN models[key].sample_count + SamplesOf(keys \ {key})

\* C21: the summary GET /api/models/status answers counts the registry keys
\* as total_models, the keys whose trained flag is set as trained_models,
\* sums sample_count over the trained keys only as total_samples, and is
\* ready exactly when some key is trained; trained_models never exceeds
\* total_models.
StatusSummaryCounts ==
    last_op.op = "status" =>
        LET summary == last_op.status.summary
        IN /\ summary.total_models = Cardinality(DOMAIN models)
           /\ summary.trained_models = Cardinality(TrainedKeys)
           /\ summary.total_samples = SamplesOf(TrainedKeys)
           /\ summary.ready = (summary.trained_models > 0)
           /\ summary.trained_models <= summary.total_models

\* the status of a registry that holds a trained and an untrained key
StatusSummaryCountsWitness ==
    /\ last_op.op = "status"
    /\ TrainedKeys # {}
    /\ TrainedKeys # DOMAIN models
    /\ last_op.status.summary.total_samples > 0

\* the step function of a training sample count, in tenths
SampleSizeStep(n) ==
    IF n > 1000 THEN 8 ELSE IF n > 500 THEN 7 ELSE IF n > 100 THEN 6 ELSE 4

\* C22: in every predict call that is answered, the sample-size component
\* that went into the confidence is the step function (0.8 above 1000, 0.7
\* above 500, 0.6 above 100, else 0.4) of the sample count of the bundle of
\* the key the call was made for.
SampleComponentFromOwnBundle ==
    \A th \in DOMAIN threads :
        (threads[th].pc = "done" /\ threads[th].req.status = "ok") =>
            threads[th].req.model_confidence
                = SampleSizeStep(ModelOf(threads[th].req).sample_count)

\* 0.35 u + 0.45 r + 0.20 s of the call, numerator over ConfDen(pnl_std):
\* u is over 1500, r over 20 * StdDiv(pnl_std), s over 10
WeightedSum ==
    LET sd == StdDiv(conf.pnl_std)
    IN 14 * sd * uncertainty_confidence(conf.pnl_std)              \* 0.35 * 60000 / 1500
       + 1350 * return_confidence(conf.pnl_mean, conf.pnl_std)     \* 0.45 * 60000 / 20
       + 1200 * sd * model_confidence(conf.sample_count)           \* 0.20 * 60000 / 10

\* clamp(c, 0.1, 0.95), numerators over ConfDen(pnl_std)
Clamped(c) ==
    LET lo == ConfDen(conf.pnl_std) \div 10
        hi == 19 * (ConfDen(conf.pnl_std) \div 20)
    IN IF c < lo THEN lo ELSE IF c > hi THEN hi ELSE c

\* 0.01, numerator over ConfDen(pnl_std)
JitterTolerance == ConfDen(conf.pnl_std) \div 100

\* C23: the value calculate_confidence returns is the weighted sum
\* 0.35 u + 0.45 r + 0.20 s plus a jitter j, clamped to [0.1, 0.95], with
\* |j| <= 0.01; so it lies within 0.01 of the clamped jitter-free sum.
ConfidenceIsClampedWeightedSum ==
    conf.called =>
        LET j == noise(conf.hash, conf.pnl_std)
        IN /\ Abs(j) <= JitterTolerance
           /\ conf.confidence = Clamped(WeightedSum + j)
           /\ Abs(conf.confidence - Clamped(WeightedSum)) <= JitterTolerance

\* a call whose jitter is the full -0.01 and whose result is inside the
\* clamp range, 0.01 below the jitter-free sum
ConfidenceIsClampedWeightedSumWitness ==
    /\ conf.called
    /\ conf.hash = 0
    /\ conf.pnl_std > 0
    /\ conf.sample_count # Unset
    /\ conf.confidence = WeightedSum - JitterTolerance
    /\ conf.confidence > Clamped(0)

\* the component is at least 0.1 (numerator over 1500)
UncertaintyFloorKept == uncertainty_confidence(conf.pnl_std) >= 150

\* C24: the uncertainty component (numerator over 1500) lies in [0.7, 0.9]
\* for pnl_std in [0, 20), in [0.3, 0.7) for pnl_std in [20, 50) and in
\* [0.1, 0.3) for pnl_std >= 50; it decreases within each band and never
\* falls below 0.1.
UncertaintyComponentBands ==
    conf.called =>
        LET s == conf.pnl_std
            u == uncertainty_confidence(s)
        IN /\ s < 20 => (1050 <= u /\ u <= 1350)
           /\ (20 <= s /\ s < 50) => (450 <= u /\ u < 1050)
           /\ s >= 50 => (150 <= u /\ u < 450)
           /\ \A t \in StdValues :
                (s < t /\ StdBand(s) = StdBand(t)) => uncertainty_confidence(t) < u
           /\ UncertaintyFloorKept

\* the step is a train_model call that returned False for a key that was
\* trained when the call was made
FailedRetrainStep ==
    /\ last_op' # last_op
    /\ last_op'.op = "train"
    /\ last_op'.result = "False"
    /\ last_op'.key \in DOMAIN models
    /\ models[last_op'.key].trained

\* C25: when train_model returns False for an already trained key, the
\* registry entry (estimators, trained flag, sample_count, last_updated) and
\* the scaler that predict uses for the key are those from before the call.
FailedRetrainKeepsBundle ==
    [][FailedRetrainStep =>
          /\ models'[last_op'.key] = models[last_op'.key]
          /\ scalers'[last_op'.key] = scalers[last_op'.key]]_vars

\* the readable bundles the enhanced trainer has in models_dir
EnhancedBundles ==
    {key \in DOMAIN disk_models :
        disk_models[key] # Corrupt /\ "feature_selector" \in DOMAIN disk_models[key]}

\* C26: in every bundle the enhanced trainer persisted, feature_names lists
\* exactly the names of the columns the bundle's own selector retains, in
\* column order, and removed_features is exactly the set of columns that
\* selector drops, whatever jobs the trainer instance ran before.
BundleNamesMatchOwnSelector ==
    \A key \in EnhancedBundles :
        LET bundle == disk_models[key]
            mask == bundle.feature_selector.mask
        IN /\ Len(bundle.feature_names) = Cardinality(retained(mask))
           /\ bundle.feature_names
                = names_not_removed([i \in 1..Len(mask) |-> FeatureName(i)], removed(mask))
           /\ bundle.removed_features = removed(mask)

\* the request is a feature map for a loaded trainer bundle whose selector
\* dropped at least one column, and its vector got past the selector
MapSelectedByTrainerBundle ==
    /\ VectorSelected
    /\ pred.is_dict
    /\ "feature_selector" \in DOMAIN ModelOf(pred)
    /\ "feature_names" \in DOMAIN ModelOf(pred)
    /\ removed(ModelOf(pred).feature_selector.mask) # {}

\* C27: for such a request, the k-th value handed to the scaler and the
\* models, which stands for the k-th retained column, is the map's value for
\* the name that column had at training time (the k-th of feature_names), or
\* 0 when the map has no such name.
NamedValuesStayAligned ==
    MapSelectedByTrainerBundle =>
        LET names == ModelOf(pred).feature_names
        IN /\ Len(pred.features_selected) = Len(names)
           /\ \A k \in 1..Len(names) :
                pred.features_selected[k] = features_get(pred.items, names[k], 0)

\* C28: once the three regressors of a job are fitted, each was fitted on
\* the whole preprocessed matrix of the job: the same number of rows and the
\* same columns for the PnL, the trajectory and the risk fit.
ThreeFitsOnSameMatrix ==
    (job.pc \in {"risk_fit", "bundle_written"}) =>
        /\ job.fit_rows.pnl = job.features_scaled.rows
        /\ job.fit_rows.trajectory = job.features_scaled.rows
        /\ job.fit_rows.risk = job.features_scaled.rows
        /\ job.pnl_gp.width = job.features_scaled.width
        /\ job.trajectory_gp.width = job.features_scaled.width
        /\ job.risk_gp.width = job.features_scaled.width

\* the batch run is over and its summary is written
SummaryWritten == SummaryKey \in DOMAIN disk_metrics

\* C29: when the batch driver has finished, successes + failures is the
\* number of training files it discovered, and the summary it wrote holds
\* one outcome for each key a job ran for in this batch, and none for any
\* other key.
SummaryCoversBatch ==
    SummaryWritten =>
        LET summary == disk_metrics[SummaryKey]
        IN /\ summary.successes + summary.failures = Cardinality(DOMAIN files)
           /\ DOMAIN summary.models = {name \in DOMAIN files : well_named(name)}

\* the confidence of the call's pnl_std and sample count at pnl_mean m with
\* the jitter left out (residue 50), numerator over ConfDen(pnl_std)
JitterFreeConfidence(m) == calculate_confidence(m, conf.pnl_std, conf.sample_count, 50)

\* C30: for a fixed pnl_std > 0 and a fixed sample count, the jitter left
\* out, a higher pnl_mean never gives a lower confidence, across all five
\* return regimes and their boundaries at -10 and 10.
ConfidenceMonotoneInMean ==
    (conf.called /\ conf.pnl_std > 0) =>
        \A m2 \in MeanValues :
            conf.pnl_mean < m2 => JitterFreeConfidence(conf.pnl_mean) <= JitterFreeConfidence(m2)

====
